---- MODULE Spec2Model ----
(***************************************************************************)
(* Model of the moegirl-mcp page content parser                            *)
(* (src-ts/core/page_content_parser.ts).                                   *)
(*                                                                         *)
(* A JavaScript string is modelled as a sequence of one-character strings, *)
(* so that trimming, prefix tests, substring search, the regular           *)
(* expressions and the brace scans are computed character by character as  *)
(* the code computes them.  parsePage is modelled one loop iteration per   *)
(* action; section objects live in a heap because the code pushes the same *)
(* object reference more than once and mutates it afterwards.              *)
(***************************************************************************)
EXTENDS Integers, Sequences, FiniteSets, TLC

----------------------------------------------------------------------------
(* Characters and the JavaScript string primitives the parser uses         *)

NL == "\n"
OPEN == <<"{", "{">>
CLOSE == <<"}", "}">>
PIPE == <<"|">>

IsSpace(c) == c \in {" ", "\t", NL}

Drop(s, n) == SubSeq(s, n + 1, Len(s))

RECURSIVE trimStart(_)
trimStart(s) ==
  IF s # <<>> /\ IsSpace(Head(s)) THEN trimStart(Tail(s)) ELSE s

RECURSIVE trimEnd(_)
trimEnd(s) ==
  IF s # <<>> /\ IsSpace(s[Len(s)]) THEN trimEnd(SubSeq(s, 1, Len(s) - 1)) ELSE s

trim(s) == trimEnd(trimStart(s))

startsWith(s, p) == Len(s) >= Len(p) /\ SubSeq(s, 1, Len(p)) = p

endsWith(s, p) == Len(s) >= Len(p) /\ SubSeq(s, Len(s) - Len(p) + 1, Len(s)) = p

includes(s, p) == \E k \in 0..(Len(s) - Len(p)) : SubSeq(s, k + 1, k + Len(p)) = p

Lower(c) ==
  CASE c = "A" -> "a"
    [] c = "B" -> "b"
    [] c = "C" -> "c"
    [] c = "F" -> "f"
    [] c = "H" -> "h"
    [] c = "I" -> "i"
    [] c = "Q" -> "q"
    [] c = "T" -> "t"
    [] OTHER -> c

toLowerCase(s) == [k \in 1..Len(s) |-> Lower(s[k])]

RECURSIVE join(_, _)
join(parts, sep) ==
  IF parts = <<>> THEN <<>>
  ELSE IF Len(parts) = 1 THEN parts[1]
  ELSE parts[1] \o sep \o join(Tail(parts), sep)

\* length of the longest prefix of s made of characters outside excl
RECURSIVE PrefixNotIn(_, _)
PrefixNotIn(s, excl) ==
  IF s = <<>> \/ Head(s) \in excl THEN 0 ELSE 1 + PrefixNotIn(Tail(s), excl)

\* length of the longest prefix of s made of characters inside incl
RECURSIVE PrefixIn(_, _)
PrefixIn(s, incl) ==
  IF s = <<>> \/ Head(s) \notin incl THEN 0 ELSE 1 + PrefixIn(Tail(s), incl)

\* `${n}` for a non-negative integer
Digit(d) == <<"0", "1", "2", "3", "4", "5", "6", "7", "8", "9">>[d + 1]

RECURSIVE numberToString(_)
numberToString(n) ==
  IF n < 10 THEN <<Digit(n)>> ELSE numberToString(n \div 10) \o <<Digit(n % 10)>>

----------------------------------------------------------------------------
(* The heading rule: trimmedLine.match(/^(#{1,6})\s+(.+)$/)                *)

MaxHeadingLevel == 6

NoMatch == [matched |-> FALSE, level |-> 0, title |-> <<>>]

\* the pattern with an unbounded run of markers, /^(#+)\s+(.+)$/
headingMatchUnbounded(trimmedLine) ==
  LET h == PrefixIn(trimmedLine, {"#"})
      rest == Drop(trimmedLine, h)
      w == PrefixIn(rest, {" ", "\t"})
      ws == IF w = Len(rest) THEN w - 1 ELSE w
      title == Drop(rest, ws)
  IN IF /\ h >= 1
        /\ ws >= 1
        /\ Len(title) >= 1
        /\ ~includes(title, <<NL>>)
     THEN [matched |-> TRUE, level |-> h, title |-> title]
     ELSE NoMatch

headingMatch(trimmedLine) ==
  LET h == PrefixIn(trimmedLine, {"#"})
      rest == Drop(trimmedLine, h)
      w == PrefixIn(rest, {" ", "\t"})
      \* \s+ is greedy and gives one character back when nothing is left for (.+)
      ws == IF w = Len(rest) THEN w - 1 ELSE w
      title == Drop(rest, ws)
  IN IF /\ h >= 1
        /\ h <= MaxHeadingLevel
        /\ ws >= 1
        /\ Len(title) >= 1
        /\ ~includes(title, <<NL>>)
     THEN [matched |-> TRUE, level |-> h, title |-> title]
     ELSE NoMatch

----------------------------------------------------------------------------
(* Template recogniser                                                     *)

ShortNameLen == 3

\* the name extraction folding the first argument into names of any length
extractTemplateNameAlwaysFolds(line) ==
  LET body == Drop(line, 2)
      n1 == PrefixNotIn(body, {"|", "}"})
      after1 == Drop(body, n1)
      match == /\ startsWith(line, OPEN)
               /\ n1 >= 1
               /\ (startsWith(after1, PIPE) \/ startsWith(after1, CLOSE))
      templateName == trim(SubSeq(body, 1, n1))
      rest2 == Drop(after1, 1)
      n2 == PrefixNotIn(rest2, {"|", "}"})
      after2 == Drop(rest2, n2)
      fullMatchHasPipe == /\ startsWith(after1, PIPE)
                          /\ n2 >= 1
                          /\ (startsWith(after2, PIPE) \/ startsWith(after2, CLOSE))
  IN IF ~match THEN <<>>
     ELSE IF /\ includes(line, PIPE)
             /\ fullMatchHasPipe
          THEN trim(SubSeq(body, 1, n1 + 1 + n2))
          ELSE templateName

\* line.match(/^\{\{([^|\}]+)(?:\||\}\})/), then for a short name
\* line.match(/^\{\{([^|}]+(?:\|[^|}]+)?)(?:\||\}\})/)
extractTemplateName(line) ==
  LET body == Drop(line, 2)
      n1 == PrefixNotIn(body, {"|", "}"})
      after1 == Drop(body, n1)
      match == /\ startsWith(line, OPEN)
               /\ n1 >= 1
               /\ (startsWith(after1, PIPE) \/ startsWith(after1, CLOSE))
      templateName == trim(SubSeq(body, 1, n1))
      rest2 == Drop(after1, 1)
      n2 == PrefixNotIn(rest2, {"|", "}"})
      after2 == Drop(rest2, n2)
      fullMatchHasPipe == /\ startsWith(after1, PIPE)
                          /\ n2 >= 1
                          /\ (startsWith(after2, PIPE) \/ startsWith(after2, CLOSE))
  IN IF ~match THEN <<>>
     ELSE IF /\ Len(templateName) <= ShortNameLen
             /\ includes(line, PIPE)
             /\ fullMatchHasPipe
          THEN trim(SubSeq(body, 1, n1 + 1 + n2))
          ELSE templateName

\* the pair scan of isValidTemplateStart: +2 per "{{", -2 per "}}"
RECURSIVE braceCount(_)
braceCount(line) ==
  IF line = <<>> THEN 0
  ELSE IF startsWith(line, OPEN) THEN 2 + braceCount(Drop(line, 2))
  ELSE IF startsWith(line, CLOSE) THEN braceCount(Drop(line, 2)) - 2
  ELSE braceCount(Tail(line))

\* the recogniser without the test for a third opening brace
isValidTemplateStartTriple(line) ==
  IF ~startsWith(line, OPEN) THEN FALSE
  ELSE IF extractTemplateName(line) = <<>> THEN FALSE
  ELSE IF includes(line, CLOSE) THEN braceCount(line) = 0
  ELSE TRUE

\* lines 227-256
isValidTemplateStart(line) ==
  IF ~startsWith(line, OPEN) \/ startsWith(line, <<"{", "{", "{">>) THEN FALSE
  ELSE IF extractTemplateName(line) = <<>> THEN FALSE
  ELSE IF includes(line, CLOSE) THEN braceCount(line) = 0
  ELSE TRUE

----------------------------------------------------------------------------
(* Brace matcher                                                           *)

\* the while loop of lines 200-217, one character or brace pair per call
RECURSIVE completeFrom(_, _)
completeFrom(content, count) ==
  CASE content = <<>> -> FALSE
    [] startsWith(content, OPEN) -> completeFrom(Drop(content, 2), count + 2)
    [] startsWith(content, CLOSE) /\ count - 2 = 0 -> ~includes(Drop(content, 2), OPEN)
    [] startsWith(content, CLOSE) /\ count - 2 # 0 ->
         completeFrom(Drop(content, 2), count - 2)
    [] content # <<>> /\ ~startsWith(content, OPEN) /\ ~startsWith(content, CLOSE) ->
         completeFrom(Tail(content), count)

isTemplateComplete(content) == completeFrom(content, 0)

----------------------------------------------------------------------------
(* Parameter splitter and parameter extraction                             *)

\* the branch of lines 299-317 taken at the head of content
splitKind(content, braceLevel, bracketLevel) ==
  IF content = <<>> THEN "end"
  ELSE IF startsWith(content, OPEN) THEN "open"
  ELSE IF startsWith(content, CLOSE) THEN "close"
  ELSE IF Head(content) = "[" THEN "bracket"
  ELSE IF Head(content) = "]" THEN "unbracket"
  ELSE IF Head(content) = "|" /\ braceLevel = 0 /\ bracketLevel = 0 THEN "cut"
  ELSE "copy"

\* the character loop without the bracket counter: "|" cuts inside [[ ]]
RECURSIVE splitLoopNoBracket(_, _, _, _, _)
splitLoopNoBracket(content, parts, current, braceLevel, bracketLevel) ==
  CASE splitKind(content, braceLevel, 0) = "end" ->
         IF current # <<>> THEN Append(parts, current) ELSE parts
    [] splitKind(content, braceLevel, 0) = "open" ->
         splitLoopNoBracket(Drop(content, 2), parts, Append(current, Head(content)),
                            braceLevel + 2, bracketLevel)
    [] splitKind(content, braceLevel, 0) = "close" ->
         splitLoopNoBracket(Drop(content, 2), parts, Append(current, Head(content)),
                            braceLevel - 2, bracketLevel)
    [] splitKind(content, braceLevel, 0) = "cut" ->
         splitLoopNoBracket(Tail(content), Append(parts, current), <<>>,
                            braceLevel, bracketLevel)
    [] splitKind(content, braceLevel, 0) \in {"bracket", "unbracket", "copy"} ->
         splitLoopNoBracket(Tail(content), parts, Append(current, Head(content)),
                            braceLevel, bracketLevel)

\* the character loop of splitTemplateParams; of a "{{" or "}}" pair only
\* the first character is copied to the current part
RECURSIVE splitLoop(_, _, _, _, _)
splitLoop(content, parts, current, braceLevel, bracketLevel) ==
  CASE splitKind(content, braceLevel, bracketLevel) = "end" ->
         IF current # <<>> THEN Append(parts, current) ELSE parts
    [] splitKind(content, braceLevel, bracketLevel) = "open" ->
         splitLoop(Drop(content, 2), parts, Append(current, Head(content)),
                   braceLevel + 2, bracketLevel)
    [] splitKind(content, braceLevel, bracketLevel) = "close" ->
         splitLoop(Drop(content, 2), parts, Append(current, Head(content)),
                   braceLevel - 2, bracketLevel)
    [] splitKind(content, braceLevel, bracketLevel) = "bracket" ->
         splitLoop(Tail(content), parts, Append(current, Head(content)),
                   braceLevel, bracketLevel + 1)
    [] splitKind(content, braceLevel, bracketLevel) = "unbracket" ->
         splitLoop(Tail(content), parts, Append(current, Head(content)),
                   braceLevel, bracketLevel - 1)
    [] splitKind(content, braceLevel, bracketLevel) = "cut" ->
         splitLoop(Tail(content), Append(parts, current), <<>>,
                   braceLevel, bracketLevel)
    [] splitKind(content, braceLevel, bracketLevel) = "copy" ->
         splitLoop(Tail(content), parts, Append(current, Head(content)),
                   braceLevel, bracketLevel)

splitTemplateParams(content) == splitLoop(content, <<>>, <<>>, 0, 0)

\* templateText.replace(/^\{\{|\}\}$/g, '')
stripOuterBraces(templateText) ==
  LET a == IF startsWith(templateText, OPEN) THEN Drop(templateText, 2) ELSE templateText
  IN IF endsWith(a, CLOSE) THEN SubSeq(a, 1, Len(a) - 2) ELSE a

\* part.match(/^([^=]+)=(.+)$/): the key runs to the first "=", the value is
\* the whole rest, which "." only matches when it holds no line break
keyValueMatch(part) ==
  LET k == PrefixNotIn(part, {"="})
      value == Drop(part, k + 1)
  IN IF k >= 1 /\ k < Len(part) /\ Len(value) >= 1 /\ ~includes(value, <<NL>>)
     THEN [matched |-> TRUE, key |-> SubSeq(part, 1, k), value |-> value]
     ELSE [matched |-> FALSE, key |-> <<>>, value |-> <<>>]

\* Map.prototype.set on an insertion-ordered map kept as a sequence of entries
mapSet(m, key, value) ==
  IF \E k \in 1..Len(m) : m[k].key = key
  THEN [k \in 1..Len(m) |-> IF m[k].key = key THEN [key |-> key, value |-> value] ELSE m[k]]
  ELSE Append(m, [key |-> key, value |-> value])

RECURSIVE setParts(_, _, _)
setParts(parts, index, parameters) ==
  IF index >= Len(parts) THEN parameters
  ELSE LET part == parts[index + 1]
           kv == keyValueMatch(part)
       IN IF kv.matched
          THEN setParts(parts, index + 1, mapSet(parameters, trim(kv.key), trim(kv.value)))
          ELSE IF trim(part) # <<>>
          THEN setParts(parts, index + 1,
                        mapSet(parameters, numberToString(index + 1), trim(part)))
          ELSE setParts(parts, index + 1, parameters)

extractTemplateParameters(templateText) ==
  setParts(splitTemplateParams(stripOuterBraces(templateText)), 0, <<>>)

----------------------------------------------------------------------------
(* TOC renderer.  Characters outside ASCII are written by code point.      *)

\* '无目录'
NoTocText == <<"U+65E0", "U+76EE", "U+5F55">>

\* '📋 页面目录\n'
TocTitleLine == <<"U+1F4CB", " ", "U+9875", "U+9762", "U+76EE", "U+5F55", NL>>

TocRuleLen == 20

IndentUnit == <<" ", " ">>

BULLET == "U+2022"

\* String.prototype.repeat
RECURSIVE repeat(_, _)
repeat(s, n) == IF n <= 0 THEN <<>> ELSE s \o repeat(s, n - 1)

\* the indent with level instead of level - 1
tocLineDeeper(heading) ==
  repeat(IndentUnit, heading.level) \o <<BULLET, " ">> \o heading.title \o <<NL>>

\* `${indent}• ${heading.title}\n`
tocLine(heading) ==
  repeat(IndentUnit, heading.level - 1) \o <<BULLET, " ">> \o heading.title \o <<NL>>

RECURSIVE tocLines(_)
tocLines(hs) == IF hs = <<>> THEN <<>> ELSE tocLine(Head(hs)) \o tocLines(Tail(hs))

generateTOC(hs) ==
  IF Len(hs) = 0 THEN NoTocText
  ELSE TocTitleLine \o repeat(<<"=">>, TocRuleLen) \o <<NL, NL>> \o tocLines(hs)

----------------------------------------------------------------------------
(* Inputs: documents made of a palette of lines, and the fixed scenarios   *)

HeadingA == <<"#", " ", "A">>
HeadingAB == <<"#", "#", " ", "A", "B">>
TextLine == <<"t">>
EmptyLine == <<>>
TemplateT == <<"{", "{", "T", "|", "x", "}", "}">>
OpenPiped == <<"{", "{", "Q", "u", "o", "t", "e", "|", "a", "=", "b">>
OpenQuote == <<"{", "{", "Q", "u", "o", "t", "e">>
ParamLine == <<"|", "t", "e", "x", "t", "=", "H", "e", "l", "l", "o">>
CloseLine == <<"}", "}">>

InfoboxLine == <<"{", "{", "I", "n", "f", "o", "b", "o", "x", "|", "n", "a", "m", "e",
                 "=", "F", "o", "o", "|", "2", "=", "b", "a", "r", "}", "}">>
TripleLine == <<"{", "{", "{", "x", "}", "}", "}">>
WikiA == <<"=", "=", " ", "A", " ", "=", "=">>
WikiB == <<"=", "=", "=", " ", "B", " ", "=", "=", "=">>
WikiC == <<"=", "=", " ", "C", " ", "=", "=">>
Text1 == <<"t", "e", "x", "t", "1">>
Text2 == <<"t", "e", "x", "t", "2">>
Text3 == <<"t", "e", "x", "t", "3">>
MdA == <<"#", "#", " ", "A">>
MdB == <<"#", "#", "#", " ", "B">>
MdC == <<"#", "#", " ", "C">>
Hash6 == <<"#", "#", "#", "#", "#", "#", " ", "A">>
Hash7 == <<"#", "#", "#", "#", "#", "#", "#", " ", "A">>
IndentedHeading == <<" ", "#", " ", "A">>

Palette ==
  {HeadingA, HeadingAB, TextLine, EmptyLine, TemplateT, OpenPiped, OpenQuote,
   ParamLine, CloseLine}

MaxLines == 4

\* the documents of the scenarios: wikitext headings, the same page with
\* "#" headings, the one-line infobox alone and followed by text, the
\* three-line template, a triple-brace line, a template under a subheading
ScenarioA == <<WikiA, Text1, WikiB, Text2, WikiC, Text3>>
ScenarioAHash == <<MdA, Text1, MdB, Text2, MdC, Text3>>
ScenarioB == <<InfoboxLine>>
ScenarioBText == <<InfoboxLine, TextLine>>
ScenarioC == <<OpenQuote, ParamLine, CloseLine>>
ScenarioNested == <<HeadingA, HeadingAB, TemplateT, TextLine>>

\* a page with headings of six and of seven markers and an indented heading
ScenarioDeepHeadings == <<HeadingA, Hash7, Hash6, IndentedHeading>>

Scenarios ==
  {ScenarioA, ScenarioAHash, ScenarioB, ScenarioBText, ScenarioC, ScenarioNested,
   <<TripleLine, TextLine>>, ScenarioDeepHeadings}

Documents == (UNION {[1..n -> Palette] : n \in 1..MaxLines}) \cup Scenarios

\* content.split('\n')
RECURSIVE splitLines(_, _, _)
splitLines(content, done, current) ==
  IF content = <<>> THEN Append(done, current)
  ELSE IF Head(content) = NL THEN splitLines(Tail(content), Append(done, current), <<>>)
  ELSE splitLines(Tail(content), done, Append(current, Head(content)))

split(content) == splitLines(content, <<>>, <<>>)

Queries == {<<"a">>, <<"B">>, <<"c">>, <<>>}
TemplateQueries == {<<"q">>, <<"t">>, <<"z">>, <<"i">>}

----------------------------------------------------------------------------
(* parsePage as a state machine: one action per branch of the line loop    *)

VARIABLES
  lines,            \* content.split('\n')
  i,                \* the loop index (0-based, as in the code)
  pc,               \* "loop", "done" (parsePage returned), "answered"
  heap,             \* the PageSection objects created so far, by reference
  sections,         \* references into heap, in push order
  currentSection,   \* a reference into heap, or 0 for null
  templateStack,    \* frames {name, startLine, content: lines}
  templates,        \* the PageTemplate list
  headings,         \* {title, level, line}
  toc,              \* the table of contents string, <<>> before parsePage returns
  answer,           \* the last query made on the returned structure
  cache,            \* CacheManager.cache: key -> {data, timestamp, ttl}
  cacheStats,       \* CacheManager.stats
  now,              \* Date.now(), in milliseconds
  calls,            \* the CacheManager calls made so far, with their results
  response,         \* the response of the last tool call of the server
  stats,            \* MoegirlMCPServer.stats: the request counters
  pending,          \* the tool calls that wait at an await of their handler
  connection        \* MoegirlClient.checkConnection: its locals and position

parserVars == <<lines, i, pc, heap, sections, currentSection, templateStack, templates,
                headings, toc, answer>>

serverVars == <<cache, cacheStats, now, calls, response, stats, pending, connection>>

vars == <<parserVars, serverVars>>

\* a new CacheManager (lines 15-22), the clock at 0 and no call made
NoEntries == <<>>
NoHitRate == [hits |-> 0, requests |-> 1]
NoStats == [total_entries |-> 0, cache_hits |-> 0, cache_misses |-> 0, hit_rate |-> NoHitRate]
NoResponse == [tool |-> "none"]
NoRequests == [totalRequests |-> 0, successfulRequests |-> 0, failedRequests |-> 0]
NoCheck == [at |-> "idle", attempt |-> 0, retryDelay |-> 0, outcomes |-> <<>>,
            waits |-> <<>>, returned |-> <<>>]

ServerInit ==
  /\ cache = NoEntries
  /\ cacheStats = NoStats
  /\ now = 0
  /\ calls = <<>>
  /\ response = NoResponse
  /\ stats = NoRequests
  /\ pending = <<>>
  /\ connection = NoCheck

NoAnswer == [op |-> "none", query |-> <<>>, result |-> <<>>]

Init ==
  /\ \E doc \in Documents : lines = split(join(doc, <<NL>>))
  /\ i = 0
  /\ pc = "loop"
  /\ heap = <<>>
  /\ sections = <<>>
  /\ currentSection = 0
  /\ templateStack = <<>>
  /\ templates = <<>>
  /\ headings = <<>>
  /\ toc = <<>>
  /\ answer = NoAnswer
  /\ ServerInit

line == lines[i + 1]
trimmedLine == trim(line)

InLoop == pc = "loop" /\ i < Len(lines)

Section(type, title, level, templateName, content, startLine, endLine) ==
  [type |-> type, title |-> title, level |-> level, templateName |-> templateName,
   content |-> content, startLine |-> startLine, endLine |-> endLine]

\* currentSection.endLine = e; sections.push(currentSection)
closeInto(h, e) == [h EXCEPT ![currentSection].endLine = e]

\* the heading step yielding to an open scan: the line joins the buffer
HeadingLineYieldsToScan ==
  /\ InLoop
  /\ headingMatch(trimmedLine).matched
  /\ IF templateStack # <<>>
     THEN /\ templateStack' = [templateStack EXCEPT
                                 ![Len(templateStack)].content = Append(@, line)]
          /\ UNCHANGED <<heap, sections, headings, currentSection>>
     ELSE LET m == headingMatch(trimmedLine)
              closed == IF currentSection # 0 THEN closeInto(heap, i - 1) ELSE heap
          IN /\ heap' = Append(closed,
                               Section("heading", m.title, m.level, <<>>, line, i, i))
             /\ sections' = IF currentSection # 0 THEN Append(sections, currentSection)
                            ELSE sections
             /\ headings' = Append(headings,
                                   [title |-> m.title, level |-> m.level, line |-> i])
             /\ currentSection' = Len(heap) + 1
             /\ UNCHANGED templateStack
  /\ i' = i + 1
  /\ UNCHANGED <<lines, pc, templates, toc, answer>>
  /\ UNCHANGED serverVars

\* the heading step recording one-based line numbers
HeadingLineCountsFromOne ==
  /\ InLoop
  /\ headingMatch(trimmedLine).matched
  /\ LET m == headingMatch(trimmedLine)
         closed == IF currentSection # 0 THEN closeInto(heap, i - 1) ELSE heap
     IN /\ heap' = Append(closed, Section("heading", m.title, m.level, <<>>, line, i, i))
        /\ sections' = IF currentSection # 0 THEN Append(sections, currentSection)
                       ELSE sections
        /\ headings' = Append(headings,
                              [title |-> m.title, level |-> m.level, line |-> i + 1])
        /\ currentSection' = Len(heap) + 1
  /\ i' = i + 1
  /\ UNCHANGED <<lines, pc, templateStack, templates, toc, answer>>
  /\ UNCHANGED serverVars

\* lines 28-51: the heading rule
HeadingLine ==
  /\ InLoop
  /\ headingMatch(trimmedLine).matched
  /\ LET m == headingMatch(trimmedLine)
         closed == IF currentSection # 0 THEN closeInto(heap, i - 1) ELSE heap
     IN /\ heap' = Append(closed, Section("heading", m.title, m.level, <<>>, line, i, i))
        /\ sections' = IF currentSection # 0 THEN Append(sections, currentSection)
                       ELSE sections
        /\ headings' = Append(headings, [title |-> m.title, level |-> m.level, line |-> i])
        /\ currentSection' = Len(heap) + 1
  /\ i' = i + 1
  /\ UNCHANGED <<lines, pc, templateStack, templates, toc, answer>>
  /\ UNCHANGED serverVars

\* lines 53-68: a template start pushes a scan frame; the open section is
\* pushed to sections but stays the current section
TemplateStart ==
  /\ InLoop
  /\ ~headingMatch(trimmedLine).matched
  /\ isValidTemplateStart(trimmedLine)
  /\ LET save == currentSection # 0 /\ heap[currentSection].type # "template"
     IN /\ heap' = IF save THEN closeInto(heap, i - 1) ELSE heap
        /\ sections' = IF save THEN Append(sections, currentSection) ELSE sections
  /\ templateStack' = Append(templateStack,
                             [name |-> extractTemplateName(trimmedLine),
                              startLine |-> i,
                              content |-> <<line>>])
  /\ i' = i + 1
  /\ UNCHANGED <<lines, pc, currentSection, templates, headings, toc, answer>>
  /\ UNCHANGED serverVars

\* the scan step promoting a completed template only when no section is open
TemplateScanMergesIntoHeading ==
  /\ InLoop
  /\ ~headingMatch(trimmedLine).matched
  /\ ~isValidTemplateStart(trimmedLine)
  /\ templateStack # <<>>
  /\ LET top == Len(templateStack)
         pushed == [templateStack EXCEPT ![top].content = Append(@, line)]
         currentTemplate == pushed[top]
         fullText == join(currentTemplate.content, <<NL>>)
     IN IF isTemplateComplete(fullText)
        THEN /\ templateStack' = SubSeq(pushed, 1, top - 1)
             /\ templates' = Append(templates,
                                    [name |-> currentTemplate.name,
                                     fullText |-> fullText,
                                     parameters |-> extractTemplateParameters(fullText),
                                     startLine |-> currentTemplate.startLine,
                                     endLine |-> i])
             /\ IF currentSection = 0
                THEN /\ heap' = Append(heap,
                                       Section("template", <<>>, 0, currentTemplate.name,
                                               fullText, currentTemplate.startLine, i))
                     /\ currentSection' = Len(heap) + 1
                     /\ UNCHANGED sections
                ELSE /\ heap' = [heap EXCEPT
                                   ![currentSection].content = @ \o <<NL>> \o fullText,
                                   ![currentSection].endLine = i]
                     /\ UNCHANGED <<sections, currentSection>>
        ELSE /\ templateStack' = pushed
             /\ UNCHANGED <<templates, heap, sections, currentSection>>
  /\ i' = i + 1
  /\ UNCHANGED <<lines, pc, headings, toc, answer>>
  /\ UNCHANGED serverVars

\* the scan step listing a completed template before the earlier ones
TemplateScanPrepends ==
  /\ InLoop
  /\ ~headingMatch(trimmedLine).matched
  /\ ~isValidTemplateStart(trimmedLine)
  /\ templateStack # <<>>
  /\ LET top == Len(templateStack)
         pushed == [templateStack EXCEPT ![top].content = Append(@, line)]
         currentTemplate == pushed[top]
         fullText == join(currentTemplate.content, <<NL>>)
     IN IF isTemplateComplete(fullText)
        THEN /\ templateStack' = SubSeq(pushed, 1, top - 1)
             /\ templates' = <<[name |-> currentTemplate.name,
                               fullText |-> fullText,
                               parameters |-> extractTemplateParameters(fullText),
                               startLine |-> currentTemplate.startLine,
                               endLine |-> i]>> \o templates
             /\ IF currentSection = 0 \/ heap[currentSection].type = "heading"
                THEN /\ heap' = Append(IF currentSection # 0 THEN closeInto(heap, i - 1)
                                       ELSE heap,
                                       Section("template", <<>>, 0, currentTemplate.name,
                                               fullText, currentTemplate.startLine, i))
                     /\ sections' = IF currentSection # 0
                                    THEN Append(sections, currentSection)
                                    ELSE sections
                     /\ currentSection' = Len(heap) + 1
                ELSE /\ heap' = [heap EXCEPT
                                   ![currentSection].content = @ \o <<NL>> \o fullText,
                                   ![currentSection].endLine = i]
                     /\ UNCHANGED <<sections, currentSection>>
        ELSE /\ templateStack' = pushed
             /\ UNCHANGED <<templates, heap, sections, currentSection>>
  /\ i' = i + 1
  /\ UNCHANGED <<lines, pc, headings, toc, answer>>
  /\ UNCHANGED serverVars

\* the scan step emitting the buffer as it stood before the closing line
TemplateScanEmitsEarlierBuffer ==
  /\ InLoop
  /\ ~headingMatch(trimmedLine).matched
  /\ ~isValidTemplateStart(trimmedLine)
  /\ templateStack # <<>>
  /\ LET top == Len(templateStack)
         pushed == [templateStack EXCEPT ![top].content = Append(@, line)]
         currentTemplate == pushed[top]
         fullText == join(templateStack[top].content, <<NL>>)
     IN IF isTemplateComplete(join(currentTemplate.content, <<NL>>))
        THEN /\ templateStack' = SubSeq(pushed, 1, top - 1)
             /\ templates' = Append(templates,
                                    [name |-> currentTemplate.name,
                                     fullText |-> fullText,
                                     parameters |-> extractTemplateParameters(fullText),
                                     startLine |-> currentTemplate.startLine,
                                     endLine |-> i])
             /\ IF currentSection = 0 \/ heap[currentSection].type = "heading"
                THEN /\ heap' = Append(IF currentSection # 0 THEN closeInto(heap, i - 1)
                                       ELSE heap,
                                       Section("template", <<>>, 0, currentTemplate.name,
                                               fullText, currentTemplate.startLine, i))
                     /\ sections' = IF currentSection # 0
                                    THEN Append(sections, currentSection)
                                    ELSE sections
                     /\ currentSection' = Len(heap) + 1
                ELSE /\ heap' = [heap EXCEPT
                                   ![currentSection].content = @ \o <<NL>> \o fullText,
                                   ![currentSection].endLine = i]
                     /\ UNCHANGED <<sections, currentSection>>
        ELSE /\ templateStack' = pushed
             /\ UNCHANGED <<templates, heap, sections, currentSection>>
  /\ i' = i + 1
  /\ UNCHANGED <<lines, pc, headings, toc, answer>>
  /\ UNCHANGED serverVars

\* lines 70-118: a line read while a scan frame is open
TemplateScan ==
  /\ InLoop
  /\ ~headingMatch(trimmedLine).matched
  /\ ~isValidTemplateStart(trimmedLine)
  /\ templateStack # <<>>
  /\ LET top == Len(templateStack)
         pushed == [templateStack EXCEPT ![top].content = Append(@, line)]
         currentTemplate == pushed[top]
         fullText == join(currentTemplate.content, <<NL>>)
     IN IF isTemplateComplete(fullText)
        THEN /\ templateStack' = SubSeq(pushed, 1, top - 1)
             /\ templates' = Append(templates,
                                    [name |-> currentTemplate.name,
                                     fullText |-> fullText,
                                     parameters |-> extractTemplateParameters(fullText),
                                     startLine |-> currentTemplate.startLine,
                                     endLine |-> i])
             /\ IF currentSection = 0 \/ heap[currentSection].type = "heading"
                THEN /\ heap' = Append(IF currentSection # 0 THEN closeInto(heap, i - 1)
                                       ELSE heap,
                                       Section("template", <<>>, 0, currentTemplate.name,
                                               fullText, currentTemplate.startLine, i))
                     /\ sections' = IF currentSection # 0
                                    THEN Append(sections, currentSection)
                                    ELSE sections
                     /\ currentSection' = Len(heap) + 1
                ELSE /\ heap' = [heap EXCEPT
                                   ![currentSection].content = @ \o <<NL>> \o fullText,
                                   ![currentSection].endLine = i]
                     /\ UNCHANGED <<sections, currentSection>>
        ELSE /\ templateStack' = pushed
             /\ UNCHANGED <<templates, heap, sections, currentSection>>
  /\ i' = i + 1
  /\ UNCHANGED <<lines, pc, headings, toc, answer>>
  /\ UNCHANGED serverVars

\* the plain-line step opening a new Content section for every line
PlainLineAlwaysOpens ==
  /\ InLoop
  /\ ~headingMatch(trimmedLine).matched
  /\ ~isValidTemplateStart(trimmedLine)
  /\ templateStack = <<>>
  /\ IF currentSection # 0 /\ heap[currentSection].type \in {"content", "heading"}
     THEN /\ heap' = Append(closeInto(heap, i - 1),
                            Section("content", <<>>, 0, <<>>, line, i, i))
          /\ sections' = Append(sections, currentSection)
          /\ currentSection' = Len(heap) + 1
     ELSE IF currentSection = 0
     THEN /\ heap' = Append(heap, Section("content", <<>>, 0, <<>>, line, i, i))
          /\ currentSection' = Len(heap) + 1
          /\ UNCHANGED sections
     ELSE UNCHANGED <<heap, sections, currentSection>>
  /\ i' = i + 1
  /\ UNCHANGED <<lines, pc, templateStack, templates, headings, toc,
                 answer>>
  /\ UNCHANGED serverVars

\* the plain-line step failing where none of its three branches applies
PlainLineThrows ==
  /\ InLoop
  /\ ~headingMatch(trimmedLine).matched
  /\ ~isValidTemplateStart(trimmedLine)
  /\ templateStack = <<>>
  /\ IF currentSection # 0 /\ heap[currentSection].type = "content"
     THEN /\ heap' = [heap EXCEPT ![currentSection].content = @ \o <<NL>> \o line,
                                  ![currentSection].endLine = i]
          /\ UNCHANGED <<sections, currentSection>>
     ELSE IF currentSection # 0 /\ heap[currentSection].type = "heading"
     THEN /\ heap' = Append(closeInto(heap, i - 1),
                            Section("content", <<>>, 0, <<>>, line, i, i))
          /\ sections' = Append(sections, currentSection)
          /\ currentSection' = Len(heap) + 1
     ELSE /\ currentSection = 0
          /\ heap' = Append(heap, Section("content", <<>>, 0, <<>>, line, i, i))
          /\ currentSection' = Len(heap) + 1
          /\ UNCHANGED sections
  /\ i' = i + 1
  /\ UNCHANGED <<lines, pc, templateStack, templates, headings, toc,
                 answer>>
  /\ UNCHANGED serverVars

\* lines 120-143: plain content; a line read while the current section is a
\* Template-section matches none of the three branches
PlainLine ==
  /\ InLoop
  /\ ~headingMatch(trimmedLine).matched
  /\ ~isValidTemplateStart(trimmedLine)
  /\ templateStack = <<>>
  /\ IF currentSection # 0 /\ heap[currentSection].type = "content"
     THEN /\ heap' = [heap EXCEPT ![currentSection].content = @ \o <<NL>> \o line,
                                  ![currentSection].endLine = i]
          /\ UNCHANGED <<sections, currentSection>>
     ELSE IF currentSection # 0 /\ heap[currentSection].type = "heading"
     THEN /\ heap' = Append(closeInto(heap, i - 1),
                            Section("content", <<>>, 0, <<>>, line, i, i))
          /\ sections' = Append(sections, currentSection)
          /\ currentSection' = Len(heap) + 1
     ELSE IF currentSection = 0
     THEN /\ heap' = Append(heap, Section("content", <<>>, 0, <<>>, line, i, i))
          /\ currentSection' = Len(heap) + 1
          /\ UNCHANGED sections
     ELSE UNCHANGED <<heap, sections, currentSection>>
  /\ i' = i + 1
  /\ UNCHANGED <<lines, pc, templateStack, templates, headings, toc,
                 answer>>
  /\ UNCHANGED serverVars

\* the end of input emitting the scan frame that is still open
FinishEmitsOpenScan ==
  /\ pc = "loop"
  /\ i = Len(lines)
  /\ IF currentSection # 0
     THEN /\ heap' = closeInto(heap, Len(lines) - 1)
          /\ sections' = Append(sections, currentSection)
     ELSE UNCHANGED <<heap, sections>>
  /\ templates' =
       IF templateStack = <<>> THEN templates
       ELSE LET top == templateStack[Len(templateStack)]
            IN Append(templates,
                      [name |-> top.name,
                       fullText |-> join(top.content, <<NL>>),
                       parameters |-> extractTemplateParameters(join(top.content, <<NL>>)),
                       startLine |-> top.startLine,
                       endLine |-> Len(lines) - 1])
  /\ toc' = generateTOC(headings)
  /\ pc' = "done"
  /\ UNCHANGED <<lines, i, currentSection, templateStack, headings, answer>>
  /\ UNCHANGED serverVars

\* the end of input closing the last section one line past the end
FinishClosesPastEnd ==
  /\ pc = "loop"
  /\ i = Len(lines)
  /\ IF currentSection # 0
     THEN /\ heap' = closeInto(heap, Len(lines))
          /\ sections' = Append(sections, currentSection)
     ELSE UNCHANGED <<heap, sections>>
  /\ toc' = generateTOC(headings)
  /\ pc' = "done"
  /\ UNCHANGED <<lines, i, currentSection, templateStack, templates, headings, answer>>
  /\ UNCHANGED serverVars

\* lines 146-161: the last section is closed and the structure returned
Finish ==
  /\ pc = "loop"
  /\ i = Len(lines)
  /\ IF currentSection # 0
     THEN /\ heap' = closeInto(heap, Len(lines) - 1)
          /\ sections' = Append(sections, currentSection)
     ELSE UNCHANGED <<heap, sections>>
  /\ toc' = generateTOC(headings)
  /\ pc' = "done"
  /\ UNCHANGED <<lines, i, currentSection, templateStack, templates, headings, answer>>
  /\ UNCHANGED serverVars

\* structure.sections as the caller sees it: the referenced objects
Sections == [k \in 1..Len(sections) |-> heap[sections[k]]]

----------------------------------------------------------------------------
(* Query layer                                                             *)

titleMatches(section, title) ==
  /\ section.type = "heading"
  /\ section.title # <<>>
  /\ includes(toLowerCase(section.title), toLowerCase(title))

\* the collecting loop with the stop test written "<" instead of "<="
RECURSIVE collectStrict(_, _, _, _)
collectStrict(secs, k, level, content) ==
  IF k > Len(secs) THEN content
  ELSE IF /\ secs[k].type = "heading"
          /\ secs[k].level # 0
          /\ level # 0
          /\ secs[k].level < level
       THEN content
       ELSE collectStrict(secs, k + 1, level, Append(content, secs[k].content))

\* the collecting loop of getContentByTitle, from index k (1-based)
RECURSIVE collect(_, _, _, _)
collect(secs, k, level, content) ==
  IF k > Len(secs) THEN content
  ELSE IF /\ secs[k].type = "heading"
          /\ secs[k].level # 0
          /\ level # 0
          /\ secs[k].level <= level
       THEN content
       ELSE collect(secs, k + 1, level, Append(content, secs[k].content))

\* find() returns the first matching object and indexOf() the first index
\* holding that object, which is the index find() stopped at
getContentByTitle(secs, title) ==
  IF ~\E k \in 1..Len(secs) : titleMatches(secs[k], title) THEN <<>>
  ELSE LET headingIndex == CHOOSE k \in 1..Len(secs) :
                              /\ titleMatches(secs[k], title)
                              /\ \A j \in 1..(k - 1) : ~titleMatches(secs[j], title)
       IN join(collect(secs, headingIndex + 1, secs[headingIndex].level, <<>>),
               <<NL, NL>>)

GetContent ==
  /\ pc = "done"
  /\ \E q \in Queries :
       answer' = [op |-> "getContentByTitle", query |-> q,
                  result |-> getContentByTitle(Sections, q)]
  /\ pc' = "answered"
  /\ UNCHANGED <<lines, i, heap, sections, currentSection, templateStack, templates,
                 headings, toc>>
  /\ UNCHANGED serverVars

\* the filter with a case-sensitive test
findTemplatesByNameExact(structureTemplates, templateName) ==
  SelectSeq(structureTemplates, LAMBDA template : includes(template.name, templateName))

\* structure.templates.filter(template =>
\*   template.name.toLowerCase().includes(templateName.toLowerCase()))
findTemplatesByName(structureTemplates, templateName) ==
  SelectSeq(structureTemplates,
            LAMBDA template : includes(toLowerCase(template.name), toLowerCase(templateName)))

\* structure.sections.filter(section => section.type === 'heading' &&
\*   section.title && section.title.toLowerCase().includes(title.toLowerCase()))
findSectionsByTitle(structureSections, title) ==
  SelectSeq(structureSections, LAMBDA section : titleMatches(section, title))

FindTemplates ==
  /\ pc = "done"
  /\ \E q \in TemplateQueries :
       answer' = [op |-> "findTemplatesByName", query |-> q,
                  result |-> findTemplatesByName(templates, q)]
  /\ pc' = "answered"
  /\ UNCHANGED <<lines, i, heap, sections, currentSection, templateStack, templates,
                 headings, toc>>
  /\ UNCHANGED serverVars

FindSections ==
  /\ pc = "done"
  /\ \E q \in Queries :
       answer' = [op |-> "findSectionsByTitle", query |-> q,
                  result |-> findSectionsByTitle(Sections, q)]
  /\ pc' = "answered"
  /\ UNCHANGED <<lines, i, heap, sections, currentSection, templateStack, templates,
                 headings, toc>>
  /\ UNCHANGED serverVars

\* an own property key that is an array index ("0", "1", "2", ... written
\* without a leading zero): objects enumerate these first, in ascending order
isArrayIndex(key) ==
  /\ key # <<>>
  /\ \A k \in 1..Len(key) : key[k] \in {"0", "1", "2", "3", "4", "5", "6", "7", "8", "9"}
  /\ Len(key) = 1 \/ key[1] # "0"

digitValue(c) == CHOOSE d \in 0..9 : Digit(d) = c

RECURSIVE indexValue(_)
indexValue(key) ==
  IF key = <<>> THEN 0
  ELSE 10 * indexValue(SubSeq(key, 1, Len(key) - 1)) + digitValue(key[Len(key)])

\* Object.fromEntries(map): the own properties in the order the object
\* enumerates them (and JSON.stringify prints them): array-index keys in
\* ascending order, then the other keys in insertion order
objectFromEntries(m) ==
  LET indexed == SelectSeq(m, LAMBDA e : isArrayIndex(e.key))
      named == SelectSeq(m, LAMBDA e : ~isArrayIndex(e.key))
      rank(e) == Cardinality({k \in 1..Len(indexed) :
                                indexValue(indexed[k].key) < indexValue(e.key)})
      ascending == [j \in 1..Len(indexed) |->
                      indexed[CHOOSE k \in 1..Len(indexed) : rank(indexed[k]) = j - 1]]
  IN ascending \o named

\* cli.ts lines 811-844: displayPageSections with jsonFormat, for one template
\* query; the entry of results.content, absent when no template matches
DisplaySectionsJson ==
  /\ pc = "done"
  /\ \E templateQuery \in TemplateQueries :
       LET found == findTemplatesByName(templates, templateQuery)
       IN answer' = [op |-> "displayPageSections", query |-> templateQuery,
                     result |-> [k \in 1..Len(found) |->
                                   [name |-> found[k].name,
                                    fullText |-> found[k].fullText,
                                    parameters |-> objectFromEntries(found[k].parameters)]]]
  /\ pc' = "answered"
  /\ UNCHANGED <<lines, i, heap, sections, currentSection, templateStack, templates,
                 headings, toc>>
  /\ UNCHANGED serverVars

Next ==
  \/ HeadingLine
  \/ TemplateStart
  \/ TemplateScan
  \/ PlainLine
  \/ Finish
  \/ GetContent
  \/ FindTemplates
  \/ FindSections
  \/ DisplaySectionsJson

Spec == Init /\ [][Next]_vars

----------------------------------------------------------------------------
(* parsePage alone, on pages of malformed markup                           *)

MalformedPalette == {CloseLine, OpenPiped, HeadingA, EmptyLine, TripleLine}

MaxMalformedLines == 3

\* a stray closing pair, an opening that is never closed with a heading and
\* an empty line inside it, and a triple-brace line
ScenarioMalformed == <<CloseLine, OpenPiped, HeadingA, EmptyLine, TripleLine>>

MalformedDocuments ==
  (UNION {[1..n -> MalformedPalette] : n \in 1..MaxMalformedLines}) \cup {ScenarioMalformed}

InitMalformed ==
  /\ \E doc \in MalformedDocuments : lines = split(join(doc, <<NL>>))
  /\ i = 0
  /\ pc = "loop"
  /\ heap = <<>>
  /\ sections = <<>>
  /\ currentSection = 0
  /\ templateStack = <<>>
  /\ templates = <<>>
  /\ headings = <<>>
  /\ toc = <<>>
  /\ answer = NoAnswer
  /\ ServerInit

\* one step of parsePage: a line handled by its branch, or the return
ParseStep == HeadingLine \/ TemplateStart \/ TemplateScan \/ PlainLine \/ Finish

SpecMalformed == InitMalformed /\ [][ParseStep]_vars

----------------------------------------------------------------------------
(* extractTemplateParameters applied to template texts {{Name|arg|...}}    *)

ArgNamed == <<"n", "a", "m", "e", "=", "F", "o", "o">>
ArgNumbered == <<"2", "=", "b", "a", "r">>
ArgPositional == <<"x">>
ArgBlank == <<" ">>
ArgLink == <<"[", "[", "a", "|", "b", "]", "]">>
ArgNested == <<"{", "{", "n", "|", "m", "}", "}">>
ArgNamedBreak == <<"t", "e", "x", "t", "=", "H", "e", "l", "l", "o", "\n">>
NameInfobox == <<"I", "n", "f", "o", "b", "o", "x">>
NameT == <<"T">>

ArgPalette ==
  {ArgNamed, ArgNumbered, ArgPositional, ArgBlank, ArgLink, ArgNested, ArgNamedBreak}

NamePalette == {NameInfobox, NameT}

MaxArgs == 3

ArgLists == UNION {[1..n -> ArgPalette] : n \in 0..MaxArgs}

RECURSIVE pipeJoined(_)
pipeJoined(args) ==
  IF args = <<>> THEN <<>> ELSE PIPE \o Head(args) \o pipeJoined(Tail(args))

templateText(name, args) == OPEN \o name \o pipeJoined(args) \o CLOSE

InitParams ==
  /\ lines = <<>>
  /\ i = 0
  /\ pc = "text"
  /\ heap = <<>>
  /\ sections = <<>>
  /\ currentSection = 0
  /\ templateStack = <<>>
  /\ templates = <<>>
  /\ headings = <<>>
  /\ toc = <<>>
  /\ answer = NoAnswer
  /\ ServerInit

ExtractParameters ==
  /\ pc = "text"
  /\ \E name \in NamePalette, args \in ArgLists :
       answer' = [op |-> "extractTemplateParameters",
                  query |-> templateText(name, args),
                  result |-> extractTemplateParameters(templateText(name, args))]
  /\ pc' = "answered"
  /\ UNCHANGED <<lines, i, heap, sections, currentSection, templateStack, templates,
                 headings, toc>>
  /\ UNCHANGED serverVars

\* line 270: the interior handed to the splitter
SplitParameters ==
  /\ pc = "text"
  /\ \E name \in NamePalette, args \in ArgLists :
       LET content == stripOuterBraces(templateText(name, args))
       IN answer' = [op |-> "splitTemplateParams",
                     query |-> content,
                     result |-> splitTemplateParams(content)]
  /\ pc' = "answered"
  /\ UNCHANGED <<lines, i, heap, sections, currentSection, templateStack, templates,
                 headings, toc>>
  /\ UNCHANGED serverVars

NextParams == ExtractParameters \/ SplitParameters

SpecParams == InitParams /\ [][NextParams]_vars

----------------------------------------------------------------------------
(* The template recogniser applied to single lines: a line is a sequence   *)
(* of up to MaxPieces pieces                                               *)

Pieces ==
  {OPEN, CLOSE, PIPE, <<"{">>, <<"}">>, <<"a">>, <<"a", "b", "c", "d">>, <<" ">>}

MaxPieces == 5

RECURSIVE concat(_)
concat(pieces) == IF pieces = <<>> THEN <<>> ELSE Head(pieces) \o concat(Tail(pieces))

PieceLines == {concat(ps) : ps \in UNION {[1..n -> Pieces] : n \in 0..MaxPieces}}

InitRecogniser ==
  /\ lines = <<>>
  /\ i = 0
  /\ pc = "line"
  /\ heap = <<>>
  /\ sections = <<>>
  /\ currentSection = 0
  /\ templateStack = <<>>
  /\ templates = <<>>
  /\ headings = <<>>
  /\ toc = <<>>
  /\ answer = NoAnswer
  /\ ServerInit

\* line 54: this.isValidTemplateStart(trimmedLine)
RecogniseStart ==
  /\ pc = "line"
  /\ \E l \in PieceLines :
       answer' = [op |-> "isValidTemplateStart",
                  query |-> l,
                  result |-> isValidTemplateStart(trim(l))]
  /\ pc' = "answered"
  /\ UNCHANGED <<lines, i, heap, sections, currentSection, templateStack, templates,
                 headings, toc>>
  /\ UNCHANGED serverVars

\* line 61: this.extractTemplateName(trimmedLine)
ExtractName ==
  /\ pc = "line"
  /\ \E l \in PieceLines :
       answer' = [op |-> "extractTemplateName",
                  query |-> l,
                  result |-> extractTemplateName(trim(l))]
  /\ pc' = "answered"
  /\ UNCHANGED <<lines, i, heap, sections, currentSection, templateStack, templates,
                 headings, toc>>
  /\ UNCHANGED serverVars

NextRecogniser == RecogniseStart \/ ExtractName

SpecRecogniser == InitRecogniser /\ [][NextRecogniser]_vars

----------------------------------------------------------------------------
(* CacheManager.  An optional value (a ttl that may be omitted, a result   *)
(* that may be null) is a sequence of no or one element.                   *)

\* private defaultTTL = 30 * 60 * 1000
defaultTTL == 30 * 60 * 1000

\* Map.prototype.set and Map.prototype.delete
mapPut(c, key, entry) == [k \in (DOMAIN c) \cup {key} |-> IF k = key THEN entry ELSE c[k]]
mapDelete(c, key) == [k \in (DOMAIN c) \ {key} |-> c[k]]

\* lines 141-145
updateStats(c, st) ==
  LET totalRequests == st.cache_hits + st.cache_misses
  IN [st EXCEPT !.total_entries = Cardinality(DOMAIN c),
                !.hit_rate = IF totalRequests > 0
                             THEN [hits |-> st.cache_hits, requests |-> totalRequests]
                             ELSE NoHitRate]

\* ttl || this.defaultTTL: an omitted ttl and a ttl of 0 are both falsy
effectiveTtl(ttl) == IF ttl = <<>> \/ ttl[1] = 0 THEN defaultTTL ELSE ttl[1]

\* lines 49-58
cacheSet(c, st, key, data, ttl, t) ==
  LET entry == [data |-> data, timestamp |-> t, ttl |-> effectiveTtl(ttl)]
      stored == mapPut(c, key, entry)
  IN [cache |-> stored, stats |-> updateStats(stored, st)]

\* lines 60-85
cacheGet(c, st, key, t) ==
  IF key \notin DOMAIN c
  THEN [cache |-> c,
        stats |-> updateStats(c, [st EXCEPT !.cache_misses = @ + 1]),
        result |-> <<>>]
  ELSE IF t - c[key].timestamp > c[key].ttl
  THEN [cache |-> mapDelete(c, key),
        stats |-> updateStats(mapDelete(c, key), [st EXCEPT !.cache_misses = @ + 1]),
        result |-> <<>>]
  ELSE [cache |-> c,
        stats |-> updateStats(c, [st EXCEPT !.cache_hits = @ + 1]),
        result |-> <<c[key].data>>]

\* the clock readings of the model: around the start and around one and two
\* default lifetimes later
ClockReadings == {0, 1, 2, defaultTTL, defaultTTL + 1, defaultTTL + 2}

CacheKeys == {"doc:1"}
CacheValues == {"v1", "v2"}
TtlArguments == {<<>>, <<0>>, <<1>>}

MaxCacheCalls == 3

\* time passes between two calls
ClockAdvance ==
  /\ \E t \in ClockReadings : t > now /\ now' = t
  /\ UNCHANGED <<cache, cacheStats, calls, response, stats, pending, connection>>
  /\ UNCHANGED parserVars

CacheSet ==
  /\ Len(calls) < MaxCacheCalls
  /\ \E key \in CacheKeys, data \in CacheValues, ttl \in TtlArguments :
       LET r == cacheSet(cache, cacheStats, key, data, ttl, now)
       IN /\ cache' = r.cache
          /\ cacheStats' = r.stats
          /\ calls' = Append(calls, [op |-> "set", key |-> key, data |-> data, ttl |-> ttl,
                                     at |-> now, result |-> <<>>])
  /\ UNCHANGED <<now, response, stats, pending, connection>>
  /\ UNCHANGED parserVars

CacheGet ==
  /\ Len(calls) < MaxCacheCalls
  /\ \E key \in CacheKeys :
       LET r == cacheGet(cache, cacheStats, key, now)
       IN /\ cache' = r.cache
          /\ cacheStats' = r.stats
          /\ calls' = Append(calls, [op |-> "get", key |-> key, data |-> "", ttl |-> <<>>,
                                     at |-> now, result |-> r.result])
  /\ UNCHANGED <<now, response, stats, pending, connection>>
  /\ UNCHANGED parserVars

InitCache ==
  /\ lines = <<>>
  /\ i = 0
  /\ pc = "cache"
  /\ heap = <<>>
  /\ sections = <<>>
  /\ currentSection = 0
  /\ templateStack = <<>>
  /\ templates = <<>>
  /\ headings = <<>>
  /\ toc = <<>>
  /\ answer = NoAnswer
  /\ ServerInit

NextCache == ClockAdvance \/ CacheSet \/ CacheGet

SpecCache == InitCache /\ [][NextCache]_vars

----------------------------------------------------------------------------
(* The six operations of CacheManager that touch the map or the counters,  *)
(* on two keys; answer holds the last operation, its result and the parity *)
(* of the number of operations performed                                   *)

\* lines 92-96
cacheDelete(c, st, key) ==
  [cache |-> mapDelete(c, key),
   stats |-> updateStats(mapDelete(c, key), st),
   result |-> key \in DOMAIN c]

\* lines 101-109
cacheClear == [cache |-> NoEntries, stats |-> NoStats]

\* lines 115-128
cacheCleanup(c, st, t) ==
  LET expired == {k \in DOMAIN c : t - c[k].timestamp > c[k].ttl}
      kept == [k \in (DOMAIN c) \ expired |-> c[k]]
  IN [cache |-> kept, stats |-> updateStats(kept, st), result |-> Cardinality(expired)]

\* has dropping an expired entry without refreshing the counters
cacheHasKeepsStats(c, st, key, t) ==
  IF key \notin DOMAIN c THEN [cache |-> c, stats |-> st, result |-> FALSE]
  ELSE IF t - c[key].timestamp > c[key].ttl
  THEN [cache |-> mapDelete(c, key), stats |-> st, result |-> FALSE]
  ELSE [cache |-> c, stats |-> st, result |-> TRUE]

\* lines 160-174
cacheHas(c, st, key, t) ==
  IF key \notin DOMAIN c THEN [cache |-> c, stats |-> st, result |-> FALSE]
  ELSE IF t - c[key].timestamp > c[key].ttl
  THEN [cache |-> mapDelete(c, key),
        stats |-> updateStats(mapDelete(c, key), st),
        result |-> FALSE]
  ELSE [cache |-> c, stats |-> st, result |-> TRUE]

OpsKeys == {"doc:1", "doc:2"}
OpsTtls == {<<>>, <<1>>}
MaxGets == 3

performed(op, key, result) ==
  [op |-> op, query |-> key, result |-> result, odd |-> ~answer.odd]

OpSet ==
  /\ \E key \in OpsKeys, ttl \in OpsTtls :
       LET r == cacheSet(cache, cacheStats, key, "v1", ttl, now)
       IN /\ cache' = r.cache
          /\ cacheStats' = r.stats
          /\ answer' = performed("set", key, <<>>)
  /\ UNCHANGED <<now, calls, response, stats, pending, connection>>
  /\ UNCHANGED <<lines, i, pc, heap, sections, currentSection, templateStack, templates,
                 headings, toc>>

OpGet ==
  /\ cacheStats.cache_hits + cacheStats.cache_misses < MaxGets
  /\ \E key \in OpsKeys :
       LET r == cacheGet(cache, cacheStats, key, now)
       IN /\ cache' = r.cache
          /\ cacheStats' = r.stats
          /\ answer' = performed("get", key, r.result)
  /\ UNCHANGED <<now, calls, response, stats, pending, connection>>
  /\ UNCHANGED <<lines, i, pc, heap, sections, currentSection, templateStack, templates,
                 headings, toc>>

OpDelete ==
  /\ \E key \in OpsKeys :
       LET r == cacheDelete(cache, cacheStats, key)
       IN /\ cache' = r.cache
          /\ cacheStats' = r.stats
          /\ answer' = performed("delete", key, r.result)
  /\ UNCHANGED <<now, calls, response, stats, pending, connection>>
  /\ UNCHANGED <<lines, i, pc, heap, sections, currentSection, templateStack, templates,
                 headings, toc>>

OpHas ==
  /\ \E key \in OpsKeys :
       LET r == cacheHas(cache, cacheStats, key, now)
       IN /\ cache' = r.cache
          /\ cacheStats' = r.stats
          /\ answer' = performed("has", key, r.result)
  /\ UNCHANGED <<now, calls, response, stats, pending, connection>>
  /\ UNCHANGED <<lines, i, pc, heap, sections, currentSection, templateStack, templates,
                 headings, toc>>

OpCleanup ==
  /\ LET r == cacheCleanup(cache, cacheStats, now)
     IN /\ cache' = r.cache
        /\ cacheStats' = r.stats
        /\ answer' = performed("cleanup", "", r.result)
  /\ UNCHANGED <<now, calls, response, stats, pending, connection>>
  /\ UNCHANGED <<lines, i, pc, heap, sections, currentSection, templateStack, templates,
                 headings, toc>>

OpClear ==
  /\ cache' = cacheClear.cache
  /\ cacheStats' = cacheClear.stats
  /\ answer' = performed("clear", "", <<>>)
  /\ UNCHANGED <<now, calls, response, stats, pending, connection>>
  /\ UNCHANGED <<lines, i, pc, heap, sections, currentSection, templateStack, templates,
                 headings, toc>>

InitCacheOps ==
  /\ lines = <<>>
  /\ i = 0
  /\ pc = "cache"
  /\ heap = <<>>
  /\ sections = <<>>
  /\ currentSection = 0
  /\ templateStack = <<>>
  /\ templates = <<>>
  /\ headings = <<>>
  /\ toc = <<>>
  /\ answer = [op |-> "none", query |-> "", result |-> <<>>, odd |-> FALSE]
  /\ ServerInit

NextCacheOps ==
  ClockAdvance \/ OpSet \/ OpGet \/ OpDelete \/ OpHas \/ OpCleanup \/ OpClear

SpecCacheOps == InitCacheOps /\ [][NextCacheOps]_vars

----------------------------------------------------------------------------
(* WikiTextCleaner.clean on texts written with apostrophes, letters,       *)
(* spaces, "#" and line breaks: the rules of lines 54, 56, 82 and 84; the  *)
(* other rules need "<", "{", "[", a line starting with "=" or ";", or     *)
(* "http" and leave such a text as it is                                   *)

\* the number of characters before the first delim that closes on the same
\* line, or -1: the lazy (.*?) followed by the closing delimiter
RECURSIVE closingOffset(_, _, _)
closingOffset(rest, delim, k) ==
  IF Len(rest) < k + Len(delim) THEN 0 - 1
  ELSE IF SubSeq(rest, k + 1, k + Len(delim)) = delim THEN k
  ELSE IF rest[k + 1] = NL THEN 0 - 1
  ELSE closingOffset(rest, delim, k + 1)

\* cleaned.replace(/DELIM(.*?)DELIM/g, 'MARK$1MARK')
RECURSIVE replaceDelimited(_, _, _)
replaceDelimited(text, delim, mark) ==
  IF text = <<>> THEN <<>>
  ELSE LET rest == Drop(text, Len(delim))
           k == IF startsWith(text, delim) THEN closingOffset(rest, delim, 0) ELSE 0 - 1
       IN IF k >= 0
          THEN mark \o SubSeq(rest, 1, k) \o mark
                 \o replaceDelimited(Drop(rest, k + Len(delim)), delim, mark)
          ELSE <<Head(text)>> \o replaceDelimited(Tail(text), delim, mark)

\* cleaned.replace(/\n{3,}/g, '\n\n')
RECURSIVE mergeLineBreaks(_)
mergeLineBreaks(text) ==
  IF text = <<>> THEN <<>>
  ELSE LET n == PrefixIn(text, {NL})
       IN IF n >= 3 THEN <<NL, NL>> \o mergeLineBreaks(Drop(text, n))
          ELSE IF n >= 1 THEN SubSeq(text, 1, n) \o mergeLineBreaks(Drop(text, n))
          ELSE <<Head(text)>> \o mergeLineBreaks(Tail(text))

clean(wikitext) ==
  IF wikitext = <<>> THEN <<>>
  ELSE LET bold == replaceDelimited(wikitext, <<"'", "'", "'">>, <<"*", "*">>)
           italic == replaceDelimited(bold, <<"'", "'">>, <<"*">>)
       IN trim(mergeLineBreaks(italic))

----------------------------------------------------------------------------
(* The tool handlers of the server                                        *)

\* CacheManager.buildDocKey and buildSearchKey: the key as the tuple of the
\* parts the template string joins with ":"
buildDocKey(pageid) == <<"doc", pageid>>
buildSearchKey(keyword, limit) == <<"search", keyword, limit>>

\* the fixed texts of the responses
REMAINING_OPEN ==
  <<NL, NL, ".", ".", ".", " ", "(", "U+5269", "U+4F59", " ">>
REMAINING_CLOSE ==
  <<" ", "U+5B57", "U+7B26", "U+672A", "U+663E", "U+793A", "U+FF0C",
    "U+53EF", "U+4F7F", "U+7528", " ", "g", "e", "t", "_", "p", "a", "g",
    "e", "_", "s", "e", "c", "t", "i", "o", "n", "s", " ", "U+83B7",
    "U+53D6", "U+7279", "U+5B9A", "U+90E8", "U+5206", "U+5185", "U+5BB9",
    ")">>
COMPLETE_OPEN ==
  <<NL, NL, "(", "U+5B8C", "U+6574", "U+5185", "U+5BB9", "U+FF0C",
    "U+5171", " ">>
COMPLETE_CLOSE ==
  <<" ", "U+5B57", "U+7B26", ")">>
ERROR_HEAD ==
  <<"U+274C", " ", "U+64CD", "U+4F5C", "U+5931", "U+8D25", NL, NL,
    "U+9519", "U+8BEF", "U+7C7B", "U+578B", ":", " ", "E", "r", "r", "o",
    "r", NL, "U+9519", "U+8BEF", "U+4FE1", "U+606F", ":", " ">>
ERROR_ADVICE ==
  <<NL, NL, "U+5EFA", "U+8BAE", "U+64CD", "U+4F5C", ":", NL, "1", ".", " ",
    "U+68C0", "U+67E5", "U+7F51", "U+7EDC", "U+8FDE", "U+63A5", NL, "2",
    ".", " ", "U+9A8C", "U+8BC1", "U+53C2", "U+6570", "U+683C", "U+5F0F",
    NL, "3", ".", " ", "U+91CD", "U+8BD5", "U+64CD", "U+4F5C", NL, "4",
    ".", " ", "U+67E5", "U+770B", "U+670D", "U+52A1", "U+5668", "U+72B6",
    "U+6001">>
PAGE_FETCH_FAILED ==
  <<"U+9875", "U+9762", "U+83B7", "U+53D6", "U+5931", "U+8D25", ":", " ">>
SECTIONS_REQUIRED ==
  <<"U+5FC5", "U+987B", "U+63D0", "U+4F9B", " ", "s", "e", "c", "t", "i",
    "o", "n", "_", "t", "i", "t", "l", "e", "s", " ", "U+6216", " ", "t",
    "e", "m", "p", "l", "a", "t", "e", "_", "n", "a", "m", "e", "s", " ",
    "U+53C2", "U+6570">>

\* the headings of parsePage(page.title, page.content): the heading rule is
\* tried first on every line (page_content_parser.ts lines 24-51)
RECURSIVE headingsFrom(_, _)
headingsFrom(ls, index) ==
  IF index >= Len(ls) THEN <<>>
  ELSE LET m == headingMatch(trim(ls[index + 1]))
       IN (IF m.matched THEN <<[title |-> m.title, level |-> m.level, line |-> index]>>
           ELSE <<>>) \o headingsFrom(ls, index + 1)

\* page.cleaned_content || page.content: an absent and an empty cleaned text
\* are both falsy
shownContent(page) ==
  IF page.cleaned_content = <<>> \/ page.cleaned_content[1] = <<>>
  THEN page.content
  ELSE page.cleaned_content[1]

\* server.ts lines 439-467, with content the text to show
formatWithTOC(page, content, maxLength) ==
  LET structureHeadings == headingsFrom(split(page.content), 0)
      structureToc == generateTOC(structureHeadings)
      head == IF structureToc # <<>> /\ Len(structureHeadings) > 0
              THEN structureToc \o <<NL, NL>>
              ELSE <<>>
      titleLines == <<"U+1F4D6", " ">> \o page.title \o <<NL>>
                      \o repeat(<<"=">>, Len(page.title) + 3) \o <<NL, NL>>
  IN IF Len(content) > maxLength
     THEN head \o titleLines \o SubSeq(content, 1, maxLength)
            \o REMAINING_OPEN \o numberToString(Len(content) - maxLength) \o REMAINING_CLOSE
     ELSE head \o titleLines \o content
            \o COMPLETE_OPEN \o numberToString(Len(content)) \o COMPLETE_CLOSE

formatPageContentWithTOC(page, maxLength) == formatWithTOC(page, shownContent(page), maxLength)

\* createErrorResponse for an Error with the given message (lines 522-532)
createErrorResponse(errorMessage) ==
  ERROR_HEAD \o errorMessage \o ERROR_ADVICE

pageFetchFailed(id) == PAGE_FETCH_FAILED \o id

\* the pages of the wiki: title -> wikitext
PageBold == <<"'", "'", "'", "b", "'", "'", "'">>
PageOutline == <<"#", " ", "A", NL, "'", "'", "t", "'", "'">>
WikiPages == [B |-> PageBold, O |-> PageOutline]
PageTitles == {"B", "O"}

\* max_length: a short limit and the default of line 277
DefaultPageLength == 2000
MaxLengths == {3, DefaultPageLength}

MaxCalls == 3

\* lines 85-97: the counters around a tool call that returned or threw
countRequest(st, succeeded) ==
  [st EXCEPT !.totalRequests = @ + 1,
             !.successfulRequests = IF succeeded THEN @ + 1 ELSE @,
             !.failedRequests = IF succeeded THEN @ ELSE @ + 1]

\* MoegirlClient.getPageContent for a title: the page, or null when the
\* request fails (moegirl_client.ts lines 82-136)
getPageContent(title, upstreamOk) ==
  IF upstreamOk
  THEN <<[title |-> <<title>>, content |-> WikiPages[title], cleaned_content |-> <<>>]>>
  ELSE <<>>

\* server.ts lines 276-315
handleGetPage(title, clean_content, max_length, upstreamOk) ==
  LET cacheKey == buildDocKey(title)
      cachedPage == cacheGet(cache, cacheStats, cacheKey, now)
      fetched == getPageContent(title, upstreamOk)
      pageContent == IF clean_content
                     THEN [fetched[1] EXCEPT !.cleaned_content = <<clean(fetched[1].content)>>]
                     ELSE fetched[1]
      stored == cacheSet(cachedPage.cache, cachedPage.stats, cacheKey, pageContent, <<>>, now)
  IN IF cachedPage.result # <<>>
     THEN [cache |-> cachedPage.cache, cacheStats |-> cachedPage.stats, ok |-> TRUE,
           fetched |-> FALSE,
           text |-> formatPageContentWithTOC(cachedPage.result[1], max_length)]
     ELSE IF fetched = <<>>
     THEN [cache |-> cachedPage.cache, cacheStats |-> cachedPage.stats, ok |-> FALSE,
           fetched |-> TRUE,
           text |-> createErrorResponse(pageFetchFailed(<<title>>))]
     ELSE [cache |-> stored.cache, cacheStats |-> stored.stats, ok |-> TRUE,
           fetched |-> TRUE,
           text |-> formatPageContentWithTOC(pageContent, max_length)]

GetPage ==
  /\ stats.totalRequests < MaxCalls
  /\ \E title \in PageTitles, clean_content \in BOOLEAN, max_length \in MaxLengths,
        upstreamOk \in BOOLEAN :
       LET r == handleGetPage(title, clean_content, max_length, upstreamOk)
       IN /\ cache' = r.cache
          /\ cacheStats' = r.cacheStats
          /\ stats' = countRequest(stats, r.ok)
          /\ response' = [tool |-> "get_page", title |-> title,
                          clean_content |-> clean_content, max_length |-> max_length,
                          ok |-> r.ok, fetched |-> r.fetched, text |-> r.text]
  /\ UNCHANGED <<now, calls, pending, connection>>
  /\ UNCHANGED parserVars

\* server.ts lines 322-349: the argument test and the page from the cache or
\* from the wiki; the response carries the text handed to parsePage, whose
\* structure the queries of lines 351-372 read
handleGetPageSections(title, requested, upstreamOk) ==
  LET cacheKey == buildDocKey(title)
      cachedPage == cacheGet(cache, cacheStats, cacheKey, now)
      fetched == getPageContent(title, upstreamOk)
      stored == cacheSet(cachedPage.cache, cachedPage.stats, cacheKey, fetched[1], <<>>, now)
  IN IF ~requested
     THEN [cache |-> cache, cacheStats |-> cacheStats, ok |-> FALSE, fetched |-> FALSE,
           text |-> createErrorResponse(SECTIONS_REQUIRED)]
     ELSE IF cachedPage.result # <<>>
     THEN [cache |-> cachedPage.cache, cacheStats |-> cachedPage.stats, ok |-> TRUE,
           fetched |-> FALSE, text |-> cachedPage.result[1].content]
     ELSE IF fetched = <<>>
     THEN [cache |-> cachedPage.cache, cacheStats |-> cachedPage.stats, ok |-> FALSE,
           fetched |-> TRUE,
           text |-> createErrorResponse(pageFetchFailed(<<title>>))]
     ELSE [cache |-> stored.cache, cacheStats |-> stored.stats, ok |-> TRUE,
           fetched |-> TRUE, text |-> fetched[1].content]

GetPageSections ==
  /\ stats.totalRequests < MaxCalls
  /\ \E title \in PageTitles, requested \in BOOLEAN, upstreamOk \in BOOLEAN :
       LET r == handleGetPageSections(title, requested, upstreamOk)
       IN /\ cache' = r.cache
          /\ cacheStats' = r.cacheStats
          /\ stats' = countRequest(stats, r.ok)
          /\ response' = [tool |-> "get_page_sections", title |-> title,
                          clean_content |-> FALSE, max_length |-> 0,
                          ok |-> r.ok, fetched |-> r.fetched, text |-> r.text]
  /\ UNCHANGED <<now, calls, pending, connection>>
  /\ UNCHANGED parserVars

\* the fixed texts of the search responses
NO_ENTRIES ==
  <<"U+274C", " ", "U+672A", "U+627E", "U+5230", "U+76F8", "U+5173",
    "U+6761", "U+76EE">>
RESULTS_TITLE ==
  <<"U+1F50D", " ", "U+840C", "U+5A18", "U+767E", "U+79D1", "U+641C",
    "U+7D22", "U+7ED3", "U+679C", NL>>
PAGE_ID_LABEL ==
  <<" ", " ", " ", "U+9875", "U+9762", "I", "D", ":", " ">>
LINK_LABEL ==
  <<" ", " ", " ", "U+94FE", "U+63A5", ":", " ">>
SNIPPET_LABEL ==
  <<" ", " ", " ", "U+6458", "U+8981", ":", " ">>
CURID_URL ==
  <<"h", "t", "t", "p", "s", ":", "/", "/", "z", "h", ".", "m", "o", "e",
    "g", "i", "r", "l", ".", "o", "r", "g", ".", "c", "n", "/", "i", "n",
    "d", "e", "x", ".", "p", "h", "p", "?", "c", "u", "r", "i", "d", "=">>

ResultsRuleLen == 20
DefaultSearchLimit == 5

\* result.snippet.replace(/<[^>]*>/g, '')
RECURSIVE stripTags(_)
stripTags(text) ==
  IF text = <<>> THEN <<>>
  ELSE LET n == PrefixNotIn(Tail(text), {">"})
       IN IF Head(text) = "<" /\ n < Len(text) - 1
          THEN stripTags(Drop(text, n + 2))
          ELSE <<Head(text)>> \o stripTags(Tail(text))

\* server.ts lines 480-488: the entry of one result
RECURSIVE resultEntries(_, _)
resultEntries(results, index) ==
  IF index >= Len(results) THEN <<>>
  ELSE LET result == results[index + 1]
       IN numberToString(index + 1) \o <<".", " ">> \o result.title \o <<NL>>
            \o PAGE_ID_LABEL \o numberToString(result.pageid) \o <<NL>>
            \o LINK_LABEL \o result.url \o <<NL>>
            \o (IF result.snippet # <<>>
                THEN SNIPPET_LABEL \o stripTags(result.snippet) \o <<NL>>
                ELSE <<>>)
            \o <<NL>>
            \o resultEntries(results, index + 1)

\* server.ts lines 472-491
formatSearchResults(results) ==
  IF Len(results) = 0 THEN NO_ENTRIES
  ELSE RESULTS_TITLE \o repeat(<<"=">>, ResultsRuleLen) \o <<NL, NL>>
         \o resultEntries(results, 0)

\* what the wiki answers to a search: a hit, no hit, or a failed request
SearchOutcomes == {"found", "empty", "failed"}
SearchItems == <<[title |-> <<"B">>, pageid |-> 1,
                  snippet |-> <<"<", "b", ">", "b", "<", "/", "b", ">">>]>>
Keywords == {<<"b">>}

\* MoegirlClient.search (moegirl_client.ts lines 30-75): the mapped items,
\* and [] when the answer holds no list and when the request throws
clientSearch(keyword, limit, outcome) ==
  IF outcome = "found"
  THEN [k \in 1..Len(SearchItems) |->
          [title |-> SearchItems[k].title,
           pageid |-> SearchItems[k].pageid,
           url |-> CURID_URL \o numberToString(SearchItems[k].pageid),
           snippet |-> SearchItems[k].snippet]]
  ELSE <<>>

\* server.ts lines 241-271
handleSearchMoegirl(keyword, limit, outcome) ==
  LET cacheKey == buildSearchKey(keyword, limit)
      cachedResult == cacheGet(cache, cacheStats, cacheKey, now)
      results == clientSearch(keyword, limit, outcome)
      stored == cacheSet(cachedResult.cache, cachedResult.stats, cacheKey, results, <<>>, now)
  IN IF cachedResult.result # <<>>
     THEN [cache |-> cachedResult.cache, cacheStats |-> cachedResult.stats, ok |-> TRUE,
           fetched |-> FALSE, text |-> formatSearchResults(cachedResult.result[1])]
     ELSE [cache |-> stored.cache, cacheStats |-> stored.stats, ok |-> TRUE,
           fetched |-> TRUE, text |-> formatSearchResults(results)]

SearchMoegirl ==
  /\ stats.totalRequests < MaxCalls
  /\ \E keyword \in Keywords, outcome \in SearchOutcomes :
       LET r == handleSearchMoegirl(keyword, DefaultSearchLimit, outcome)
       IN /\ cache' = r.cache
          /\ cacheStats' = r.cacheStats
          /\ stats' = countRequest(stats, r.ok)
          /\ response' = [tool |-> "search_moegirl", keyword |-> keyword,
                          limit |-> DefaultSearchLimit,
                          upstream |-> IF r.fetched THEN outcome ELSE "none",
                          ok |-> r.ok, fetched |-> r.fetched, text |-> r.text]
  /\ UNCHANGED <<now, calls, pending, connection>>
  /\ UNCHANGED parserVars

InitServer ==
  /\ lines = <<>>
  /\ i = 0
  /\ pc = "server"
  /\ heap = <<>>
  /\ sections = <<>>
  /\ currentSection = 0
  /\ templateStack = <<>>
  /\ templates = <<>>
  /\ headings = <<>>
  /\ toc = <<>>
  /\ answer = NoAnswer
  /\ ServerInit

NextServer == ClockAdvance \/ GetPage \/ GetPageSections \/ SearchMoegirl

SpecServer == InitServer /\ [][NextServer]_vars

-----------------------------------------------------------------------------
(* The tool-call handler with its awaits: a call counts itself and runs to *)
(* the first await of its handler; it is answered in a later step, and     *)
(* other calls start and finish in between                                 *)

UNKNOWN_TOOL ==
  <<"U+672A", "U+77E5", "U+5DE5", "U+5177", ":", " ">>
UNDEFINED ==
  <<"u", "n", "d", "e", "f", "i", "n", "e", "d">>
TYPE_ERROR ==
  <<"T", "y", "p", "e", "E", "r", "r", "o", "r">>
DESTRUCTURE_OPEN ==
  <<"C", "a", "n", "n", "o", "t", " ", "d", "e", "s", "t", "r", "u", "c",
    "t", "u", "r", "e", " ", "p", "r", "o", "p", "e", "r", "t", "y", " ",
    "'">>
DESTRUCTURE_CLOSE ==
  <<"'", " ", "o", "f", " ", "'", "a", "r", "g", "s", "'", " ", "a", "s",
    " ", "i", "t", " ", "i", "s", " ", "u", "n", "d", "e", "f", "i", "n",
    "e", "d", ".">>

\* createErrorResponse for an error of another class than Error (lines 522-532)
createErrorResponseOfType(errorType, errorMessage) ==
  SubSeq(ERROR_HEAD, 1, 14) \o errorType \o SubSeq(ERROR_HEAD, 20, Len(ERROR_HEAD))
    \o errorMessage \o ERROR_ADVICE

\* the tools of the switch of handleToolCall
ToolNames == {"search_moegirl", "get_page", "get_page_sections"}
PageTools == {"get_page", "get_page_sections"}

\* the requests: a tool the server does not have, a call without an arguments
\* object ("absent"), with an arguments object that holds nothing ("empty"),
\* and with its arguments ("given": the keyword, or the title and, for
\* get_page_sections, the section titles)
ToolRequests ==
  {[name |-> "x", args |-> "given", title |-> "B"]}
    \cup {[name |-> n, args |-> a, title |-> "undefined"] :
            n \in ToolNames, a \in {"absent", "empty"}}
    \cup {[name |-> "search_moegirl", args |-> "given", title |-> "undefined"]}
    \cup {[name |-> n, args |-> "given", title |-> t] : n \in PageTools, t \in PageTitles}

\* the first property the destructuring of the handler reads
firstProperty(name) ==
  IF name = "search_moegirl"
  THEN <<"k", "e", "y", "w", "o", "r", "d">>
  ELSE <<"p", "a", "g", "e", "i", "d">>

requestKeyword(request) ==
  IF request.args = "given" THEN CHOOSE k \in Keywords : TRUE ELSE UNDEFINED

requestKey(request) ==
  IF request.name = "search_moegirl"
  THEN buildSearchKey(requestKeyword(request), DefaultSearchLimit)
  ELSE buildDocKey(request.title)

\* handleToolCall and the handler it picks, up to the first await: the call
\* has thrown, has returned from the cache, or waits for the wiki
toolCallStart(request) ==
  LET cached == cacheGet(cache, cacheStats, requestKey(request), now)
      still == [cache |-> cache, cacheStats |-> cacheStats]
      looked == [cache |-> cached.cache, cacheStats |-> cached.stats]
  IN CASE request.name \notin ToolNames ->
            [after |-> still, state |-> "thrown",
             text |-> createErrorResponse(UNKNOWN_TOOL \o <<request.name>>)]
       [] request.name \in ToolNames /\ request.args = "absent" ->
            [after |-> still, state |-> "thrown",
             text |-> createErrorResponseOfType(TYPE_ERROR,
                        DESTRUCTURE_OPEN \o firstProperty(request.name)
                          \o DESTRUCTURE_CLOSE)]
       [] request.name = "get_page_sections" /\ request.args = "empty" ->
            [after |-> still, state |-> "thrown",
             text |-> createErrorResponse(SECTIONS_REQUIRED)]
       [] OTHER ->
            IF cached.result = <<>>
            THEN [after |-> looked, state |-> "awaiting", text |-> <<>>]
            ELSE [after |-> looked, state |-> "returned",
                  text |-> CASE request.name = "search_moegirl" ->
                                  formatSearchResults(cached.result[1])
                             [] request.name = "get_page" ->
                                  formatPageContentWithTOC(cached.result[1],
                                                           DefaultPageLength)
                             [] OTHER -> cached.result[1].content]

\* the handler after its await, with what the wiki answered
toolCallFinish(call, outcome) ==
  LET request == call.request
      still == [cache |-> cache, cacheStats |-> cacheStats]
      results == IF request.args = "given"
                 THEN clientSearch(requestKeyword(request), DefaultSearchLimit, outcome)
                 ELSE <<>>
      fetched == IF request.args = "given"
                 THEN getPageContent(request.title, outcome = "found")
                 ELSE <<>>
      pageContent == IF request.name = "get_page"
                     THEN [fetched[1] EXCEPT
                             !.cleaned_content = <<clean(fetched[1].content)>>]
                     ELSE fetched[1]
      data == IF request.name = "search_moegirl" THEN results ELSE pageContent
      stored == cacheSet(cache, cacheStats, call.key, data, <<>>, now)
      kept == [cache |-> stored.cache, cacheStats |-> stored.stats]
  IN CASE call.state = "thrown" -> [after |-> still, ok |-> FALSE, text |-> call.text]
       [] call.state = "returned" -> [after |-> still, ok |-> TRUE, text |-> call.text]
       [] call.state = "awaiting" /\ request.name = "search_moegirl" ->
            [after |-> kept, ok |-> TRUE, text |-> formatSearchResults(results)]
       [] call.state = "awaiting" /\ request.name \in PageTools /\ fetched = <<>> ->
            [after |-> still, ok |-> FALSE,
             text |-> createErrorResponse(pageFetchFailed(<<request.title>>))]
       [] call.state = "awaiting" /\ request.name = "get_page" /\ fetched # <<>> ->
            [after |-> kept, ok |-> TRUE,
             text |-> formatPageContentWithTOC(pageContent, DefaultPageLength)]
       [] OTHER ->
            [after |-> kept, ok |-> TRUE, text |-> fetched[1].content]

\* server.ts lines 86-88: the handler counts the call and awaits handleToolCall
StartCall ==
  /\ stats.totalRequests < MaxCalls
  /\ \E request \in ToolRequests :
       LET s == toolCallStart(request)
       IN /\ cache' = s.after.cache
          /\ cacheStats' = s.after.cacheStats
          /\ stats' = [stats EXCEPT !.totalRequests = @ + 1]
          /\ pending' = Append(pending, [request |-> request, key |-> requestKey(request),
                                         state |-> s.state, text |-> s.text])
  /\ UNCHANGED <<now, calls, response, connection>>
  /\ UNCHANGED parserVars

\* server.ts lines 88-96: the await is over, the call is counted as
\* successful or failed, and the handler returns its response
FinishCall ==
  /\ \E k \in 1..Len(pending), outcome \in SearchOutcomes :
       LET f == toolCallFinish(pending[k], outcome)
       IN /\ cache' = f.after.cache
          /\ cacheStats' = f.after.cacheStats
          /\ stats' = [stats EXCEPT
                         !.successfulRequests = IF f.ok THEN @ + 1 ELSE @,
                         !.failedRequests = IF f.ok THEN @ ELSE @ + 1]
          /\ response' = [tool |-> pending[k].request.name,
                          request |-> pending[k].request,
                          upstream |-> IF pending[k].state = "awaiting"
                                       THEN outcome ELSE "none",
                          ok |-> f.ok, text |-> f.text]
          /\ pending' = SubSeq(pending, 1, k - 1) \o Drop(pending, k)
  /\ UNCHANGED <<now, calls, connection>>
  /\ UNCHANGED parserVars

InitCalls ==
  /\ lines = <<>>
  /\ i = 0
  /\ pc = "calls"
  /\ heap = <<>>
  /\ sections = <<>>
  /\ currentSection = 0
  /\ templateStack = <<>>
  /\ templates = <<>>
  /\ headings = <<>>
  /\ toc = <<>>
  /\ answer = NoAnswer
  /\ ServerInit

NextCalls == StartCall \/ FinishCall

SpecCalls == InitCalls /\ [][NextCalls]_vars

-----------------------------------------------------------------------------
(* MoegirlClient.checkConnection: the retry loop, one step per await       *)

maxRetries == 3
InitialRetryDelay == 1000
MaxChecks == 3

\* what an attempt meets: an answer with status 200 and a query payload, an
\* answer of the 2xx range without one, or an exception (network error,
\* time-out, a status outside 2xx, an answer without data)
AttemptOutcomes == {"query", "no_query", "throws"}

\* lines 172-174: checkConnection is called and enters its loop
CheckConnection ==
  /\ connection.at \in {"idle", "returned"}
  /\ Len(connection.returned) < MaxChecks
  /\ connection' = [connection EXCEPT !.at = "request", !.attempt = 1,
                                      !.retryDelay = InitialRetryDelay,
                                      !.outcomes = <<>>, !.waits = <<>>]
  /\ UNCHANGED <<cache, cacheStats, now, calls, response, stats, pending>>
  /\ UNCHANGED parserVars

\* after attempt + 1 fails the loop test, lines 204-214 return false
nextAttempt(c) ==
  IF c.attempt + 1 <= maxRetries
  THEN [c EXCEPT !.at = "request", !.attempt = @ + 1]
  ELSE [c EXCEPT !.at = "returned", !.attempt = @ + 1,
                 !.returned = Append(@, FALSE)]

\* lines 176-201: one attempt, from the request to the next await or return
Attempt ==
  /\ connection.at = "request"
  /\ \E outcome \in AttemptOutcomes :
       LET tried == [connection EXCEPT !.outcomes = Append(@, outcome)]
       IN connection' =
            CASE outcome = "query" ->
                   [tried EXCEPT !.at = "returned", !.returned = Append(@, TRUE)]
              [] outcome = "no_query" -> nextAttempt(tried)
              [] outcome = "throws" /\ tried.attempt < maxRetries ->
                   [tried EXCEPT !.at = "sleep"]
              [] OTHER -> nextAttempt(tried)
  /\ UNCHANGED <<cache, cacheStats, now, calls, response, stats, pending>>
  /\ UNCHANGED parserVars

\* lines 198-199 and 221-223: the timer of sleep fires, the delay doubles
Sleep ==
  /\ connection.at = "sleep"
  /\ now' = now + connection.retryDelay
  /\ connection' = nextAttempt([connection EXCEPT
                                  !.waits = Append(@, connection.retryDelay),
                                  !.retryDelay = @ * 2])
  /\ UNCHANGED <<cache, cacheStats, calls, response, stats, pending>>
  /\ UNCHANGED parserVars

InitConnection ==
  /\ lines = <<>>
  /\ i = 0
  /\ pc = "connection"
  /\ heap = <<>>
  /\ sections = <<>>
  /\ currentSection = 0
  /\ templateStack = <<>>
  /\ templates = <<>>
  /\ headings = <<>>
  /\ toc = <<>>
  /\ answer = NoAnswer
  /\ ServerInit

NextConnection == CheckConnection \/ Attempt \/ Sleep

SpecConnection == InitConnection /\ [][NextConnection]_vars

\* every request ends (answer, error or the time-out of line 186) and every
\* timer fires
SpecConnectionFair ==
  SpecConnection /\ WF_vars(Attempt) /\ WF_vars(Sleep)

----------------------------------------------------------------------------
(* Properties of the returned structure                                    *)

Returned == pc \in {"done", "answered"} /\ lines # <<>>

\* C1: in the returned sections, any section that precedes another ends
\* before the other starts (document order, no overlapping line ranges)
C1_SectionsOrdered ==
  Returned =>
    \A a, b \in 1..Len(Sections) :
      a < b => Sections[a].endLine < Sections[b].startLine

\* C2: the line ranges of the returned sections cover exactly the line
\* indices 0 .. number of lines - 1
C2_SectionsCoverAllLines ==
  Returned =>
    /\ \A n \in 0..(Len(lines) - 1) :
         \E k \in 1..Len(Sections) :
           Sections[k].startLine <= n /\ n <= Sections[k].endLine
    /\ \A k \in 1..Len(Sections) :
         0 <= Sections[k].startLine /\ Sections[k].endLine <= Len(lines) - 1

\* C3: the fullText of every returned template is a substring of the content
\* of exactly one entry of sections
C3_TemplateContainment ==
  Returned =>
    \A t \in 1..Len(templates) :
      Cardinality({k \in 1..Len(Sections) :
                     includes(Sections[k].content, templates[t].fullText)}) = 1

\* a line that is by itself a brace-balanced template
isCompleteTemplateLine(l) ==
  /\ startsWith(trim(l), OPEN)
  /\ ~startsWith(trim(l), <<"{", "{", "{">>)
  /\ includes(l, CLOSE)
  /\ isValidTemplateStart(trim(l))

\* C4: a line that is by itself a brace-balanced template yields exactly one
\* template, spanning that line only, whose fullText is that line
C4_SingleLineTemplateEmitted ==
  Returned =>
    \A n \in 0..(Len(lines) - 1) :
      isCompleteTemplateLine(lines[n + 1]) =>
        LET ts == {t \in 1..Len(templates) : templates[t].startLine = n}
        IN /\ Cardinality(ts) = 1
           /\ \A t \in ts : /\ templates[t].endLine = n
                            /\ templates[t].fullText = lines[n + 1]

\* C5: the three lines "{{Quote", "|text=Hello", "}}" yield exactly one
\* template named Quote spanning lines 0..2, and the brace matcher reports
\* completion on the third line and on no earlier one
C5_MultiLineTemplateEmitted ==
  (Returned /\ lines = ScenarioC) =>
    /\ ~isTemplateComplete(join(SubSeq(lines, 1, 1), <<NL>>))
    /\ ~isTemplateComplete(join(SubSeq(lines, 1, 2), <<NL>>))
    /\ isTemplateComplete(join(lines, <<NL>>))
    /\ Len(templates) = 1
    /\ templates[1].name = <<"Q", "u", "o", "t", "e">>
    /\ templates[1].startLine = 0
    /\ templates[1].endLine = 2

\* index just after the "}}" that returns the brace depth to 0, or 0 if none
RECURSIVE matchingCloseEnd(_, _, _)
matchingCloseEnd(text, pos, depth) ==
  IF pos > Len(text) THEN 0
  ELSE IF startsWith(Drop(text, pos - 1), OPEN)
       THEN matchingCloseEnd(text, pos + 2, depth + 2)
  ELSE IF startsWith(Drop(text, pos - 1), CLOSE)
       THEN IF depth - 2 = 0 THEN pos + 1
            ELSE matchingCloseEnd(text, pos + 2, depth - 2)
  ELSE matchingCloseEnd(text, pos + 1, depth)

\* C6: the fullText of every returned template is the input lines
\* startLine..endLine joined by newlines and ends with the "}}" matching its
\* opening "{{"
C6_FullTextIsInvocation ==
  Returned =>
    \A t \in 1..Len(templates) :
      /\ templates[t].fullText =
           join(SubSeq(lines, templates[t].startLine + 1, templates[t].endLine + 1),
                <<NL>>)
      /\ matchingCloseEnd(trimStart(templates[t].fullText), 1, 0)
           = Len(trimStart(templates[t].fullText))

\* C7: when a heading line is directly followed by a template that
\* completes, getContentByTitle for that heading's title returns a string
\* containing the template's fullText
C7_TemplateUnderHeading ==
  Returned =>
    \A h \in 1..Len(headings), t \in 1..Len(templates) :
      templates[t].startLine = headings[h].line + 1 =>
        includes(getContentByTitle(Sections, headings[h].title),
                 templates[t].fullText)

\* C8: getContentByTitle finds the first Heading-section whose title
\* contains the query ignoring case and returns the contents of the sections
\* after it, joined by a blank line, up to but excluding the first later
\* Heading-section of level <= the matched level; deeper headings are
\* included; with no matching heading the result is the empty string
C8_ContentUnderHeading ==
  answer.op = "getContentByTitle" =>
    LET secs == Sections
        hits == {k \in 1..Len(secs) :
                   /\ secs[k].type = "heading"
                   /\ includes(toLowerCase(secs[k].title), toLowerCase(answer.query))}
    IN IF hits = {} THEN answer.result = <<>>
       ELSE LET first == CHOOSE k \in hits : \A j \in hits : k <= j
                stops == {j \in (first + 1)..Len(secs) :
                            /\ secs[j].type = "heading"
                            /\ secs[j].level <= secs[first].level}
                stop == IF stops = {} THEN Len(secs) + 1
                        ELSE CHOOSE j \in stops : \A m \in stops : j <= m
            IN /\ answer.result =
                    join([m \in 1..(stop - first - 1) |-> secs[first + m].content],
                         <<NL, NL>>)
               /\ \A j \in (first + 1)..(stop - 1) :
                    secs[j].type = "heading" => secs[j].level > secs[first].level

\* the query "a" on the page "## A / text1 / ### B / text2 / ## C / text3"
\* returns text1 and the nested B subsection and stops before C
C8_Witness ==
  /\ answer.op = "getContentByTitle"
  /\ lines = ScenarioAHash
  /\ answer.query = <<"a">>
  /\ answer.result = Text1 \o <<NL, NL>> \o MdB \o <<NL, NL>> \o Text2

\* C9: the wikitext heading lines "== A ==", "=== B ===", "== C ==" of
\* Scenario A are recorded as headings [{A,2,0},{B,3,2},{C,2,4}], and the
\* content under "A" is text1 and the nested B subsection, stopping before C
C9_WikitextHeadings ==
  (Returned /\ lines = ScenarioA) =>
    /\ headings = << [title |-> <<"A">>, level |-> 2, line |-> 0],
                     [title |-> <<"B">>, level |-> 3, line |-> 2],
                     [title |-> <<"C">>, level |-> 2, line |-> 4] >>
    /\ getContentByTitle(Sections, <<"A">>)
         = Text1 \o <<NL, NL>> \o WikiB \o <<NL, NL>> \o Text2

\* C10: the parameters of {{Name|arg1|...|argN}} hold one entry per
\* non-empty argument after the name and nothing else, the name is not
\* stored; {{Infobox|name=Foo|2=bar}} gives name -> Foo, 2 -> bar in order
C10_NameNotAParameter ==
  answer.op = "extractTemplateParameters" =>
    /\ answer.query = InfoboxLine =>
         answer.result = << [key |-> <<"n", "a", "m", "e">>, value |-> <<"F", "o", "o">>],
                            [key |-> <<"2">>, value |-> <<"b", "a", "r">>] >>
    /\ \A name \in NamePalette, args \in ArgLists :
         answer.query = templateText(name, args) =>
           Len(answer.result) <= Cardinality({k \in 1..Len(args) : trim(args[k]) # <<>>})

entryOf(m, key) == {k \in 1..Len(m) : m[k].key = key}

\* C11: every argument that contains "=" is stored as an explicit parameter,
\* key = trimmed text left of its first "=", value = trimmed text right of
\* it, also when the argument contains or ends with a line break
C11_ExplicitParameters ==
  answer.op = "extractTemplateParameters" =>
    \A name \in NamePalette, args \in ArgLists :
      answer.query = templateText(name, args) =>
        \A k \in 1..Len(args) :
          includes(args[k], <<"=">>) =>
            LET eq == PrefixNotIn(args[k], {"="})
                key == trim(SubSeq(args[k], 1, eq))
                value == trim(Drop(args[k], eq + 1))
            IN \E e \in entryOf(answer.result, key) : answer.result[e].value = value

\* C12: an argument without "=" is stored under the decimal string of its
\* 1-based position among the template's arguments (the first argument
\* after the name under "1"); whitespace-only arguments produce no entry
C12_PositionalParameters ==
  answer.op = "extractTemplateParameters" =>
    \A name \in NamePalette, args \in ArgLists :
      answer.query = templateText(name, args) =>
        /\ \A k \in 1..Len(args) :
             (~includes(args[k], <<"=">>) /\ trim(args[k]) # <<>>) =>
               \E e \in entryOf(answer.result, numberToString(k)) :
                 answer.result[e].value = trim(args[k])
        /\ \A e \in 1..Len(answer.result) : answer.result[e].value # <<>>

\* position q of text starts a "{{" or "}}" pair of the left-to-right scan
RECURSIVE pairStart(_, _)
pairStart(text, q) ==
  /\ q >= 1
  /\ q < Len(text)
  /\ text[q] \in {"{", "}"}
  /\ text[q + 1] = text[q]
  /\ ~pairStart(text, q - 1)

braceDepthAt(text, p) ==
  2 * Cardinality({q \in 1..(p - 1) : pairStart(text, q) /\ text[q] = "{"})
  - 2 * Cardinality({q \in 1..(p - 1) : pairStart(text, q) /\ text[q] = "}"})

bracketDepthAt(text, p) ==
  Cardinality({q \in 1..(p - 1) : text[q] = "["})
  - Cardinality({q \in 1..(p - 1) : text[q] = "]"})

topLevelPipes(text) ==
  {p \in 1..Len(text) :
     text[p] = "|" /\ braceDepthAt(text, p) = 0 /\ bracketDepthAt(text, p) = 0}

nth(S, j) == CHOOSE x \in S : Cardinality({y \in S : y < x}) = j - 1

\* the characters of text[a..b], without the second character of each pair
RECURSIVE keptBetween(_, _, _)
keptBetween(text, a, b) ==
  IF a > b THEN <<>>
  ELSE IF pairStart(text, a - 1) THEN keptBetween(text, a + 1, b)
  ELSE <<text[a]>> \o keptBetween(text, a + 1, b)

\* C13: the splitter cuts the interior exactly at the "|" characters at
\* brace depth 0 and bracket depth 0, never at a "|" inside {{...}} or
\* [[...]], and returns the arguments in their order of appearance
C13_SplitAtTopLevelPipes ==
  answer.op = "splitTemplateParams" =>
    LET text == answer.query
        cuts == topLevelPipes(text)
        n == Cardinality(cuts)
        from(j) == IF j = 1 THEN 1 ELSE nth(cuts, j - 1) + 1
        to(j) == IF j = n + 1 THEN Len(text) ELSE nth(cuts, j) - 1
        last == keptBetween(text, from(n + 1), to(n + 1))
    IN /\ Len(answer.result) = IF last = <<>> THEN n ELSE n + 1
       /\ \A j \in 1..Len(answer.result) :
            answer.result[j] = keptBetween(text, from(j), to(j))

\* {{T|[[a|b]]|{{n|m}}}} is cut at its two top-level pipes only
C13_Witness ==
  /\ answer.op = "splitTemplateParams"
  /\ answer.query = NameT \o PIPE \o ArgLink \o PIPE \o ArgNested
  /\ Len(answer.result) = 3
  /\ answer.result[2] = ArgLink

\* the brace depth of text never returns to 0
neverCloses(text) == matchingCloseEnd(text, 1, 0) = 0

\* C14: a template scan whose brace depth has not returned to 0 when the
\* input ends adds no entry to templates and no Template-section, and
\* parsePage returns
C14_UnterminatedDiscarded ==
  Returned =>
    \A f \in 1..Len(templateStack) :
      neverCloses(join(templateStack[f].content, <<NL>>)) =>
        /\ \A t \in 1..Len(templates) :
             templates[t].startLine # templateStack[f].startLine
        /\ \A k \in 1..Len(Sections) :
             Sections[k].type = "template" =>
               Sections[k].startLine # templateStack[f].startLine

\* an opening line followed by at least one scanned line, open at the end
C14_Witness ==
  /\ Returned
  /\ \E f \in 1..Len(templateStack) :
       /\ neverCloses(join(templateStack[f].content, <<NL>>))
       /\ Len(templateStack[f].content) >= 2

\* C15: parsing the empty string returns sections = [], templates = [],
\* headings = [] and the no-table-of-contents sentinel as toc
C15_EmptyInput ==
  (Returned /\ lines = split(<<>>)) =>
    /\ Sections = <<>>
    /\ templates = <<>>
    /\ headings = <<>>
    /\ toc = NoTocText

\* the number of leading heading markers of a line
leadingMarkers(l) == PrefixIn(trim(l), {"#"})

\* C16: every entry of headings has a level between 1 and 6 equal to the
\* number of leading markers of its line, and a line with seven or more
\* leading markers adds no headings entry and no Heading-section
C16_HeadingLevels ==
  Returned =>
    /\ \A k \in 1..Len(headings) :
         /\ headings[k].level \in 1..6
         /\ headings[k].level = leadingMarkers(lines[headings[k].line + 1])
    /\ \A n \in 1..Len(lines) :
         leadingMarkers(lines[n]) >= 7 =>
           /\ \A k \in 1..Len(headings) : headings[k].line # n - 1
           /\ \A k \in 1..Len(Sections) :
                Sections[k].type = "heading" => Sections[k].startLine # n - 1

C16_Witness ==
  /\ Returned
  /\ \E n \in 1..Len(lines) : leadingMarkers(lines[n]) >= 7
  /\ \E k \in 1..Len(headings) : headings[k].level = 6
  /\ \E k \in 1..Len(headings) : headings[k].level = 1

\* the lines of a table of contents that carry a bullet
bulletLines(t) == SelectSeq(split(t), LAMBDA l : includes(l, <<BULLET>>))

spaces(n) == [k \in 1..n |-> " "]

\* C17: for non-empty headings, toc has exactly one bullet line per heading,
\* in the order of headings, each made of 2 x (level - 1) spaces, the bullet
\* and the title; for empty headings, toc is the sentinel and not empty
C17_TocLines ==
  Returned =>
    IF headings = <<>>
    THEN toc = NoTocText /\ toc # <<>>
    ELSE bulletLines(toc) =
           [k \in 1..Len(headings) |->
              spaces(2 * (headings[k].level - 1)) \o <<BULLET, " ">> \o headings[k].title]

C17_Witness ==
  /\ Returned
  /\ Len(headings) >= 3
  /\ \E a, b \in 1..Len(headings) :
       a < b /\ headings[a].level = 3 /\ headings[b].level = 2

\* s contains q when letter case is ignored
containsIgnoringCase(s, q) ==
  \E o \in 0..(Len(s) - Len(q)) : \A k \in 1..Len(q) : Lower(s[o + k]) = Lower(q[k])

\* the entries of seq at the indices M, in their original order
pick(M, j) == CHOOSE k \in M : Cardinality({m \in M : m <= k}) = j
entriesAt(seq, M) == [j \in 1..Cardinality(M) |-> seq[pick(M, j)]]

\* C18: findTemplatesByName returns exactly the templates whose name contains
\* the query ignoring case, in their original order; findSectionsByTitle
\* returns exactly the Heading-sections whose title contains the query
\* ignoring case; both answer every query on every returned structure, with
\* the empty list when nothing matches
C18_FindByName ==
  /\ pc = "done" => ENABLED FindTemplates /\ ENABLED FindSections
  /\ answer.op = "findTemplatesByName" =>
       answer.result =
         entriesAt(templates,
                   {k \in 1..Len(templates) :
                      containsIgnoringCase(templates[k].name, answer.query)})
  /\ answer.op = "findSectionsByTitle" =>
       answer.result =
         entriesAt(Sections,
                   {k \in 1..Len(Sections) :
                      /\ Sections[k].type = "heading"
                      /\ containsIgnoringCase(Sections[k].title, answer.query)})

C18_Witness ==
  /\ answer.op = "findTemplatesByName"
  /\ Len(templates) >= 2
  /\ Len(answer.result) = 1
  /\ ~includes(answer.result[1].name, answer.query)

\* C19: parsePage returns a PageStructure for every input - while it runs,
\* every line is handled by a branch of the loop and the index stays within
\* the lines; at the return every line was read, every entry of sections is
\* a section object and toc is set
C19_AlwaysReturns ==
  /\ pc = "loop" => i <= Len(lines) /\ ENABLED ParseStep
  /\ Returned =>
       /\ i = Len(lines)
       /\ \A k \in 1..Len(sections) : sections[k] \in 1..Len(heap)
       /\ toc # <<>>

\* a returned page with a stray closing pair first, an opening that is never
\* closed, a heading inside it and an empty line
C19_Witness ==
  /\ Returned
  /\ lines[1] = CloseLine
  /\ templateStack # <<>>
  /\ \E k \in 1..Len(headings) : headings[k].line > templateStack[1].startLine
  /\ \E n \in 1..Len(lines) : lines[n] = EmptyLine
  /\ \E n \in 1..Len(lines) : lines[n] = TripleLine

keysOf(entries) == [k \in 1..Len(entries) |-> entries[k].key]

\* C20: in the JSON output of the section command, the parameters object of
\* each template lists its keys in the order of the template's parameters map
C20_JsonKeyOrder ==
  answer.op = "displayPageSections" =>
    LET found == findTemplatesByName(templates, answer.query)
    IN \A k \in 1..Len(answer.result) :
         keysOf(answer.result[k].parameters) = keysOf(found[k].parameters)

\* the last index before j of a set call on the key of call j, or 0
lastSetBefore(j) ==
  LET S == {s \in 1..(j - 1) : calls[s].op = "set" /\ calls[s].key = calls[j].key}
  IN IF S = {} THEN 0 ELSE CHOOSE s \in S : \A r \in S : r <= s

\* the lifetime a set call asks for: its ttl, or 30 minutes when omitted
requestedTtl(call) == IF call.ttl = <<>> THEN 30 * 60 * 1000 ELSE call.ttl[1]

\* C23: a value stored with set at time t is returned by get at every time up
\* to and including t + ttl (30 minutes when ttl is omitted) and get returns
\* null at every later time and removes the entry; a later set on the key
\* replaces the value and restarts the lifetime
C23_CacheLifetime ==
  \A j \in 1..Len(calls) :
    calls[j].op = "get" =>
      LET s == lastSetBefore(j)
      IN IF s # 0 /\ calls[j].at <= calls[s].at + requestedTtl(calls[s])
         THEN calls[j].result = <<calls[s].data>>
         ELSE /\ calls[j].result = <<>>
              /\ j = Len(calls) => calls[j].key \notin DOMAIN cache

\* C21: get_page returns the cleaned text exactly when clean_content is true
\* and the raw wikitext exactly when it is false, after every sequence of
\* earlier get_page and get_page_sections calls for the page
C21_CleanFlagHonoured ==
  (response.tool = "get_page" /\ response.ok) =>
    LET raw == WikiPages[response.title]
        page == [title |-> <<response.title>>, content |-> raw]
    IN response.text =
         formatWithTOC(page, IF response.clean_content THEN clean(raw) ELSE raw,
                       response.max_length)

\* C22: when the upstream search request fails, search_moegirl returns an
\* error response carrying the error details, not a 'no entries found'
\* response
C22_SearchFailureReported ==
  (response.tool = "search_moegirl" /\ response.upstream = "failed") =>
    /\ ~response.ok
    /\ startsWith(response.text, ERROR_HEAD)
    /\ response.text # NO_ENTRIES

\* C24: a scan frame is opened only when no scan is in progress, so the parse
\* holds at most one scan frame at any point
C24_SingleScanFrame == Len(templateStack) <= 1

\* C25: every section object is appended to sections exactly once, and the
\* returned sections hold as many Heading-sections as headings has entries
C25_SectionsAppendedOnce ==
  Returned =>
    /\ \A a, b \in 1..Len(sections) : a # b => sections[a] # sections[b]
    /\ Cardinality({k \in 1..Len(sections) : heap[sections[k]].type = "heading"})
         = Len(headings)

\* a step that appends to templates
TemplateCompletes == Len(templates') = Len(templates) + 1

\* where the completed template goes, by the section open before the step
C26_Completion ==
  TemplateCompletes =>
    LET template == templates'[Len(templates')]
    IN IF currentSection = 0 \/ heap[currentSection].type = "heading"
       THEN /\ Len(heap') = Len(heap) + 1
            /\ currentSection' = Len(heap')
            /\ heap'[currentSection'] =
                 Section("template", <<>>, 0, template.name, template.fullText,
                         template.startLine, i)
       ELSE /\ Len(heap') = Len(heap)
            /\ currentSection' = currentSection
            /\ sections' = sections
            /\ heap'[currentSection].type = heap[currentSection].type
            /\ heap'[currentSection].content =
                 heap[currentSection].content \o <<NL>> \o template.fullText
            /\ heap'[currentSection].endLine = i

\* C26: a completing template becomes its own Template-section exactly when
\* no section is open or the open section is a heading; otherwise its full
\* text is appended after a newline to the open section, whose endLine
\* becomes the completion line, and no Template-section is created
C26_CompletionPlacement == [][C26_Completion]_vars

\* a first template promoted with nothing open, a second one merged into it
C26_Witness ==
  /\ Len(templates) = 2
  /\ Len(heap) = 1
  /\ currentSection = 1
  /\ heap[1].type = "template"
  /\ heap[1].content = templates[1].fullText \o <<NL>> \o templates[2].fullText
  /\ heap[1].endLine = templates[2].endLine

\* a plain line is read while no scan frame is open
PlainLineRead ==
  /\ InLoop
  /\ ~headingMatch(trimmedLine).matched
  /\ ~isValidTemplateStart(trimmedLine)
  /\ templateStack = <<>>

\* the line read ends the content of the Content section open after the step
C27_LineKept ==
  PlainLineRead =>
    /\ currentSection' # 0
    /\ heap'[currentSection'].type = "content"
    /\ endsWith(heap'[currentSection'].content, line)
    /\ heap'[currentSection'].endLine = i
    /\ \/ /\ currentSection # 0
          /\ heap[currentSection].type = "content"
          /\ currentSection' = currentSection
       \/ /\ currentSection' = Len(heap) + 1
          /\ heap'[currentSection'].startLine = i

\* C27: a plain line read while no template scan is in progress is never
\* lost: it is appended to the open Content section, or starts a new Content
\* section when a heading, a Template-section or nothing is open
C27_PlainLineNeverLost == [][C27_LineKept]_vars

\* what reading a heading line does, whatever is open
C28_HeadingStep ==
  (InLoop /\ headingMatch(trimmedLine).matched) =>
    LET m == headingMatch(trimmedLine)
    IN /\ headings' = Append(headings, [title |-> m.title, level |-> m.level, line |-> i])
       /\ templateStack' = templateStack
       /\ templates' = templates
       /\ Len(heap') = Len(heap) + 1
       /\ currentSection' = Len(heap')
       /\ heap'[currentSection'] = Section("heading", m.title, m.level, <<>>, line, i, i)
       /\ IF currentSection # 0
          THEN /\ heap'[currentSection].endLine = i - 1
               /\ sections' = Append(sections, currentSection)
          ELSE sections' = sections

\* C28: the heading rule fires first on every line: a heading line is
\* recorded as a heading and closes the open section at the previous line,
\* also while a template scan is in progress, and is not appended to the
\* template buffer
C28_HeadingRuleFirst == [][C28_HeadingStep]_vars

\* a heading read at the line after the one that opened a scan frame, with a
\* Content section open before it
C28_Witness ==
  /\ pc = "loop"
  /\ templateStack # <<>>
  /\ templateStack[Len(templateStack)].startLine = i - 2
  /\ Len(templateStack[Len(templateStack)].content) = 1
  /\ headings # <<>>
  /\ headings[Len(headings)].line = i - 1
  /\ currentSection # 0
  /\ heap[currentSection].type = "heading"
  /\ sections # <<>>
  /\ heap[sections[Len(sections)]].type = "content"
  /\ heap[sections[Len(sections)]].endLine = i - 2

\* C29: templates is ordered by completion: endLine strictly increases along
\* the list (so no two templates complete on one line), and a template that
\* starts earlier but closes later than another stands after it
C29_CompletionOrder ==
  /\ \A a, b \in 1..Len(templates) :
       a < b => templates[a].endLine < templates[b].endLine
  /\ \A a, b \in 1..Len(templates) :
       (/\ templates[a].startLine < templates[b].startLine
        /\ templates[a].endLine > templates[b].endLine) => b < a
  /\ \A a \in 1..Len(templates) : templates[a].endLine < i

\* an inner template completed before the one that was opened before it
C29_Witness ==
  /\ Len(templates) = 2
  /\ templates[2].startLine < templates[1].startLine
  /\ templates[1].endLine < templates[2].endLine

\* the indices of the lines read so far that match the heading pattern
headingLinesRead ==
  {n \in 0..(i - 1) : headingMatch(trim(lines[n + 1])).matched}

\* C30: headings has exactly one entry per line matching the heading
\* pattern, its line equal to the index of that line and strictly increasing
\* along the list, whatever section or scan is open when the line is read
C30_OneHeadingPerLine ==
  /\ Len(headings) = Cardinality(headingLinesRead)
  /\ \A k \in 1..Len(headings) :
       /\ headings[k].line \in headingLinesRead
       /\ headings[k].title = headingMatch(trim(lines[headings[k].line + 1])).title
       /\ headings[k].level = headingMatch(trim(lines[headings[k].line + 1])).level
  /\ \A a, b \in 1..Len(headings) : a < b => headings[a].line < headings[b].line

\* a heading read with a section open, a second one read inside a scan
C30_Witness ==
  /\ pc = "done"
  /\ Len(headings) = 2
  /\ templateStack # <<>>
  /\ headings[1].line < templateStack[1].startLine
  /\ templateStack[1].startLine < headings[2].line

\* C31: the brace matcher applied to the fullText of any emitted template
\* alone reports complete
C31_FullTextComplete ==
  \A k \in 1..Len(templates) : isTemplateComplete(templates[k].fullText)

\* a template opened on one line and closed by a "}}" line, and a second one
C31_Witness ==
  /\ Len(templates) = 2
  /\ \E k \in 1..2 :
       /\ ~isTemplateComplete(lines[templates[k].startLine + 1])
       /\ endsWith(templates[k].fullText, CLOSE)

\* the positions where the left-to-right scan finds a pair of ch: the first
\* of two equal characters, an even number of ch directly before it
pairStarts(text, ch) ==
  {k \in 1..(Len(text) - 1) :
     /\ text[k] = ch
     /\ text[k + 1] = ch
     /\ LET others == {j \in 1..(k - 1) : text[j] # ch}
            last == IF others = {} THEN 0 ELSE CHOOSE j \in others : \A r \in others : r <= j
        IN (k - 1 - last) % 2 = 0}

balanced(text) ==
  Cardinality(pairStarts(text, "{")) = Cardinality(pairStarts(text, "}"))

\* C32: a line is a template start exactly when its trimmed text starts with
\* "{{" but not with "{{{", a non-empty name can be extracted, and, if it
\* contains "}}", its "{{" and "}}" pairs balance over the whole line
C32_TemplateStartRule ==
  answer.op = "isValidTemplateStart" =>
    LET t == trim(answer.query)
    IN answer.result =
         (/\ startsWith(t, OPEN)
          /\ ~startsWith(t, <<"{", "{", "{">>)
          /\ extractTemplateName(t) # <<>>
          /\ (includes(t, CLOSE) => balanced(t)))

\* a line that opens a template, has a name and holds "}}", but whose pairs
\* do not balance, is refused
C32_Witness ==
  /\ answer.op = "isValidTemplateStart"
  /\ ~answer.result
  /\ startsWith(trim(answer.query), OPEN)
  /\ ~startsWith(trim(answer.query), <<"{", "{", "{">>)
  /\ extractTemplateName(trim(answer.query)) # <<>>
  /\ includes(answer.query, CLOSE)

\* the least position of text where one of the patterns starts, 0 if none
firstOf(text, patterns) ==
  LET at == {k \in 1..Len(text) :
               \E q \in patterns :
                 k + Len(q) - 1 <= Len(text) /\ SubSeq(text, k, k + Len(q) - 1) = q}
  IN IF at = {} THEN 0 ELSE CHOOSE k \in at : \A r \in at : k <= r

\* the name as the claim words it: the text up to the first "|" or "}}",
\* joined with the first argument when the name is short and that argument
\* runs up to a further "|" or "}}"
nameUpToPipeOrClose(t) ==
  LET body == Drop(t, 2)
      d == firstOf(body, {PIPE, CLOSE})
      name == trim(SubSeq(body, 1, d - 1))
      rest == Drop(body, d)
      e == firstOf(rest, {PIPE, CLOSE})
  IN IF Len(name) <= ShortNameLen /\ body[d] = "|" /\ e >= 2
     THEN trim(SubSeq(body, 1, d + e - 1))
     ELSE name

nameUpToPipeOrBrace(t) ==
  LET body == Drop(t, 2)
      d == firstOf(body, {PIPE, <<"}">>})
      found == /\ startsWith(t, OPEN)
               /\ d >= 2
               /\ firstOf(body, {PIPE, CLOSE}) = d
      name == trim(SubSeq(body, 1, d - 1))
      rest == Drop(body, d)
      e == firstOf(rest, {PIPE, <<"}">>})
      fold == /\ Len(name) <= ShortNameLen
              /\ body[d] = "|"
              /\ e >= 2
              /\ firstOf(rest, {PIPE, CLOSE}) = e
  IN IF ~found THEN <<>>
     ELSE IF fold THEN trim(SubSeq(body, 1, d + e - 1))
     ELSE name

C34_LineRanges ==
  Returned =>
    /\ \A k \in 1..Len(Sections) :
         /\ 0 <= Sections[k].startLine
         /\ Sections[k].startLine <= Sections[k].endLine
         /\ Sections[k].endLine <= Len(lines) - 1
    /\ \A k \in 1..Len(templates) :
         /\ 0 <= templates[k].startLine
         /\ templates[k].startLine <= templates[k].endLine
         /\ templates[k].endLine <= Len(lines) - 1

\* a result with a heading closed by a template, the template promoted and
\* closed at the last line
C34_Witness ==
  /\ Returned
  /\ Len(templates) >= 1
  /\ Len(Sections) >= 3
  /\ Sections[Len(Sections)].type = "template"
  /\ Sections[Len(Sections)].endLine = Len(lines) - 1
  /\ \E k \in 1..Len(Sections) : Sections[k].type = "heading"

\* no line of the page is a template start
NoTemplateStart ==
  \A n \in 1..Len(lines) : ~isValidTemplateStart(trim(lines[n]))

isHeadingLine(n) == headingMatch(trim(lines[n + 1])).matched

\* C35: for a page without a template-start line, sections is the sequence
\* of single-line Heading-sections and maximal Content runs: it starts at
\* line 0, each section starts right after the one before, the last ends at
\* the last line, no section appears twice and no two Content sections are
\* adjacent
C35_HeadingsAndContentRuns ==
  (pc = "done" /\ NoTemplateStart) =>
    /\ Len(Sections) >= 1
    /\ Sections[1].startLine = 0
    /\ Sections[Len(Sections)].endLine = Len(lines) - 1
    /\ \A k \in 1..(Len(Sections) - 1) :
         /\ Sections[k + 1].startLine = Sections[k].endLine + 1
         /\ ~(Sections[k].type = "content" /\ Sections[k + 1].type = "content")
    /\ \A a, b \in 1..Len(sections) : a # b => sections[a] # sections[b]
    /\ \A k \in 1..Len(Sections) :
         LET s == Sections[k]
         IN /\ s.type \in {"heading", "content"}
            /\ s.startLine >= 0
            /\ s.endLine <= Len(lines) - 1
            /\ s.content = join(SubSeq(lines, s.startLine + 1, s.endLine + 1), <<NL>>)
            /\ IF s.type = "heading"
               THEN s.startLine = s.endLine /\ isHeadingLine(s.startLine)
               ELSE \A n \in s.startLine..s.endLine : ~isHeadingLine(n)

\* a page without template start: a Content run of two lines between headings
C35_Witness ==
  /\ pc = "done"
  /\ NoTemplateStart
  /\ Len(Sections) = 3
  /\ Sections[1].type = "heading"
  /\ Sections[2].type = "content"
  /\ Sections[2].endLine = Sections[2].startLine + 1
  /\ Sections[3].type = "heading"

\* an operation of the cache is performed by the step
Operated == answer'.odd # answer.odd

\* the step leaves both request counters as they are
CountersKept ==
  /\ cacheStats'.cache_hits = cacheStats.cache_hits
  /\ cacheStats'.cache_misses = cacheStats.cache_misses

\* the entry of key is held and has not outlived its ttl
live(key) == key \in DOMAIN cache /\ ~(now - cache[key].timestamp > cache[key].ttl)

C36_Step ==
  /\ Operated => cacheStats'.total_entries = Cardinality(DOMAIN cache')
  /\ IF Operated /\ answer'.op = "get"
     THEN IF live(answer'.query)
          THEN /\ answer'.result = <<cache[answer'.query].data>>
               /\ cacheStats'.cache_hits = cacheStats.cache_hits + 1
               /\ cacheStats'.cache_misses = cacheStats.cache_misses
          ELSE /\ answer'.result = <<>>
               /\ cacheStats'.cache_hits = cacheStats.cache_hits
               /\ cacheStats'.cache_misses = cacheStats.cache_misses + 1
     ELSE IF Operated /\ answer'.op = "clear"
     THEN cacheStats'.cache_hits = 0 /\ cacheStats'.cache_misses = 0
     ELSE CountersKept

\* C36: after every operation total_entries is the number of entries held;
\* every get increments exactly one of cache_hits (a live entry is returned)
\* and cache_misses (key absent or expired); no other operation changes the
\* two counters except clear, which resets both to 0
C36_StatsFollowOperations == [][C36_Step]_vars

\* has found an expired entry and dropped it while another entry stays, after
\* a hit and a miss were counted
C36_Witness ==
  /\ answer.op = "has"
  /\ answer.result = FALSE
  /\ answer.query \notin DOMAIN cache
  /\ Cardinality(DOMAIN cache) = 1
  /\ cacheStats.total_entries = 1
  /\ cacheStats.cache_hits = 1
  /\ cacheStats.cache_misses = 1
  /\ now > 1

\* the outcome counters never run ahead of totalRequests, and they add up to
\* it when no call is in flight
CountersAddUp ==
  /\ stats.successfulRequests + stats.failedRequests <= stats.totalRequests
  /\ pending = <<>> =>
       stats.successfulRequests + stats.failedRequests = stats.totalRequests

\* a step that starts a call counts it once and leaves the outcome counters;
\* a step that answers a call moves exactly one outcome counter by one
OneOutcomePerCall ==
  /\ Len(pending') > Len(pending) =>
       /\ stats'.totalRequests = stats.totalRequests + 1
       /\ stats'.successfulRequests = stats.successfulRequests
       /\ stats'.failedRequests = stats.failedRequests
  /\ Len(pending') < Len(pending) =>
       /\ stats'.totalRequests = stats.totalRequests
       /\ \/ /\ stats'.successfulRequests = stats.successfulRequests + 1
             /\ stats'.failedRequests = stats.failedRequests
          \/ /\ stats'.successfulRequests = stats.successfulRequests
             /\ stats'.failedRequests = stats.failedRequests + 1

\* the calls the handler is to answer with an error: a tool the server does
\* not have, a call that misses its arguments, a page the wiki did not give
failingCall(r) ==
  \/ r.request.name \notin ToolNames
  \/ r.request.args # "given"
  \/ r.request.name \in PageTools /\ r.upstream \in {"empty", "failed"}

isErrorResponse(text) == startsWith(text, SubSeq(ERROR_HEAD, 1, 14))

FailureAnswered ==
  (Len(pending') < Len(pending) /\ failingCall(response')) =>
    /\ stats'.failedRequests = stats.failedRequests + 1
    /\ isErrorResponse(response'.text)

CountersUnderInterleaving == [][OneOutcomePerCall]_vars

\* C37: under any interleaving of tool calls the outcome counters add up to
\* at most totalRequests, and to exactly totalRequests when no call is in
\* flight; each call moves exactly one outcome counter; and a call that fails
\* (unknown tool, missing arguments, page fetch failure) is counted as failed
\* and answered with an error response
C37_HandlerAccounting ==
  /\ []CountersAddUp
  /\ [][OneOutcomePerCall /\ FailureAnswered]_vars

\* the waits the retry loop is to make: 1000 ms, then 2000 ms
Backoff == <<1000, 2000>>

\* at most three requests; true exactly at the first attempt answered with a
\* query payload, false exactly after three failed attempts
AttemptsAndResult ==
  LET c == connection
      n == Len(c.outcomes)
  IN /\ n <= 3
     /\ \A k \in 1..(n - 1) : c.outcomes[k] # "query"
     /\ (c.at = "returned" /\ n > 0) =>
          /\ c.returned[Len(c.returned)] = (c.outcomes[n] = "query")
          /\ c.outcomes[n] # "query" => n = 3
     /\ c.at \in {"request", "sleep"} => n < 3

\* the waits made are the first of 1000 ms and 2000 ms, in this order, and
\* none follows the last attempt
WaitsDouble ==
  LET c == connection
  IN /\ Len(c.waits) <= 2
     /\ c.waits = SubSeq(Backoff, 1, Len(c.waits))
     /\ Len(c.outcomes) > 0 => Len(c.waits) < Len(c.outcomes) \/ c.at = "request"
     /\ c.at = "sleep" => Len(c.outcomes) < 3

\* every failed attempt but the last is followed by a wait
WaitsBetweenFailedAttempts ==
  LET c == connection
  IN /\ c.at = "request" => Len(c.waits) = Len(c.outcomes)
     /\ (c.at = "returned" /\ Len(c.outcomes) > 0) =>
          Len(c.waits) = Len(c.outcomes) - 1

CheckTerminates == (connection.at \in {"request", "sleep"}) ~> (connection.at = "returned")

\* C38: checkConnection makes at most 3 requests and always returns: true at
\* the first attempt answered with status 200 and a query payload, false
\* when all three attempts fail; between failed attempts it waits 1000 ms and
\* then 2000 ms, and it does not wait after the last attempt
C38_ConnectionCheck ==
  /\ [](AttemptsAndResult /\ WaitsDouble /\ WaitsBetweenFailedAttempts)
  /\ CheckTerminates

\* the step is a tool call of the server
ToolCalled == stats'.totalRequests = stats.totalRequests + 1

\* nothing was stored: every entry of the cache was there before
NothingStored ==
  \A key \in DOMAIN cache' : key \in DOMAIN cache /\ cache'[key] = cache[key]

FailedSearchNotStored ==
  (ToolCalled /\ response'.tool = "search_moegirl" /\ response'.upstream = "failed") =>
    /\ buildSearchKey(response'.keyword, response'.limit) \notin DOMAIN cache'
    /\ NothingStored

SearchAfterFailureFetches ==
  (/\ ToolCalled
   /\ response.tool = "search_moegirl" /\ response.upstream = "failed"
   /\ response'.tool = "search_moegirl"
   /\ response'.keyword = response.keyword /\ response'.limit = response.limit) =>
    response'.fetched

FailedPageFetchNotStored ==
  (ToolCalled /\ response'.tool \in PageTools /\ response'.fetched /\ ~response'.ok) =>
    NothingStored

PageFetchFailureKeepsCache == [][FailedPageFetchNotStored]_vars

\* C39: a search whose request to the wiki failed is not stored in the cache,
\* so the next search_moegirl call with the same keyword and limit asks the
\* wiki again; a failed page fetch stores nothing either
C39_FailuresNotCached ==
  [][FailedSearchNotStored /\ SearchAfterFailureFetches /\ FailedPageFetchNotStored]_vars
====
